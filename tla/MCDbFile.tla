------------------------------ MODULE MCDbFile ------------------------------
(* DbFile on files of up to three pages and of some hundreds.  Counts wrap  *)
(* at 400 pages.  The lock byte is at 158720: on page 311 of 512 bytes,     *)
(* where a map would be if no space is reserved, on page 156 of 1024 and on *)
(* page 3 of 65536.                                                         *)
EXTENDS DbFile

(* A page size that is not a power of two, and the escape value for 65536.  *)
SmallSizes == {0, 1, 512, 513, 1024}

(* From nothing to three pages of 1024 bytes, with and without a rest; two  *)
(* pages of 64 KiB; 390 pages of 512 bytes, three of 64 KiB; 400 of 512,    *)
(* which count as none.                                                     *)
SmallLengths == {0, 99, 100, 511, 512, 1023, 1024, 1536, 2048, 3072, 65536, 131072 + 7,
                 199680, 204800 + 7}
=============================================================================
