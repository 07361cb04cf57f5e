----------------------------- MODULE MCBanList -----------------------------
(***************************************************************************)
(* Instances of BanList for TLC.  The configurations choose a short ban    *)
(* and a scoring window that can end before, with or after the ban.        *)
(***************************************************************************)
EXTENDS BanList
=============================================================================
