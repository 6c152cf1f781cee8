----------------------------- MODULE MCDownload -----------------------------
(* Instances of Download for TLC. *)
EXTENDS Download, TLC

CONSTANTS
  pakA, pakB,      \* two paks
  pakC,            \* a pak the server does not have
  pakD             \* a file that does not start as a pak does

MCFiles == {pakA, pakB, pakC, pakD}
MCLists == {<<pakA, pakB>>, <<pakB>>, <<pakA, pakC>>, <<pakD>>}
MCBlocks == (pakA :> 2) @@ (pakB :> 5) @@ (pakC :> 0) @@ (pakD :> 1)
MCNotDownloadable == {pakC}
MCNotPaks == {pakD}
=============================================================================
