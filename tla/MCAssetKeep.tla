---------------------------- MODULE MCAssetKeep ----------------------------
(* A small instance of AssetKeep: one own file, then one received file. *)
EXTENDS AssetKeep

CONSTANTS own, got

OwnFiles == {own}
ListOrder == <<own, got>>

=============================================================================
