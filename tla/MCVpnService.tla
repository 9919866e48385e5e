---------------------------- MODULE MCVpnService ----------------------------
(* Small instances of the VPN service.                                     *)
EXTENDS VpnServiceProps, TLC

CONSTANTS p1, p2

\* Profiles are interchangeable.
Perms == Permutations({p1, p2})
=============================================================================
