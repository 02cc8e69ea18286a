------------------------------ MODULE MCShare ------------------------------
(* The instance of Share for TLC: two folders of the three are enabled.      *)
EXTENDS Share

TwoFolders == {"Music", "Boombox"}
=============================================================================
