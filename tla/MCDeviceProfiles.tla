-------------------------- MODULE MCDeviceProfiles --------------------------
(***************************************************************************)
(* Small instances of DeviceProfiles for TLC.                              *)
(***************************************************************************)
EXTENDS DeviceProfiles, TLC

CONSTANTS u1, u2, u3, a1, a2

Id(serial, vid, pid) == [serial |-> serial, vid |-> vid, pid |-> pid]

\* Two boards with the same serial number and different products, and a port
\* that is not USB.
Boards == u1 :> Id("s1", "v1", "p1") @@ u2 :> Id("s1", "v1", "p2") @@ u3 :> Id(None, None, None)

\* One symlink for each board.
Links == a1 :> u1 @@ a2 :> u2

Claim(name, serial, vid, pid) ==
  [name |-> name, match_serial |-> serial, match_vid |-> vid, match_pid |-> pid]

\* A profile for both boards, one for the first only, and one for a board that
\* never comes.
Overlapping == {Claim("any", "s1", None, None), Claim("shell", "s1", "v1", "p1"),
                Claim("gone", "s1", "v2", None)}
=============================================================================
