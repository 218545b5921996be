--------------------------- MODULE MCCellGeometry ---------------------------
(* CellGeometry on the smallest usable pages, up to 1024 bytes, and         *)
(* payloads from nothing to four pages, across every threshold.             *)
EXTENDS CellGeometry

MCUsable == {480, 481, 504, 512, 1000, 1024}

MCPayloads == 0 .. 4200
=============================================================================
