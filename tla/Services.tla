-------------------------------- MODULE Services --------------------------------
(***************************************************************************)
(* The services of a bootloader that share no state, side by side: tokens  *)
(* and their revocations, profiles, vaults, scopes, device pairing, the    *)
(* rows of phones and genesis quorums.  A step is a step of any of them.   *)
(***************************************************************************)
EXTENDS CapabilityUse, Profiles, Vault, Scopes, DevicePairing, PhoneRows, MemberQuorum

AllServices == Spec /\ ProfilesSpec /\ VaultSpec /\ ScopesSpec /\ PairSpec /\ RowsSpec /\ QuorumSpec

\* The types of every component here.
ServicesTypeOK ==
    TypeOK /\ ProfilesTypeOK /\ VaultTypeOK /\ ScopesTypeOK /\ PairTypeOK /\ RowsTypeOK /\ QuorumTypeOK
=================================================================================
