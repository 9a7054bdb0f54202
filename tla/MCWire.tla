-------------------------------- MODULE MCWire --------------------------------
(***************************************************************************)
(* Instance of Wire for TLC: a request of a magic of two bytes and a query *)
(* of one, which is like the first byte of the magic or not; memory that   *)
(* is clear or has the magic of a request of a context freed before;       *)
(* bodies that are empty, or longer than a head; two whole replies just    *)
(* fit into the buffer and its padding.                                    *)
(***************************************************************************)
EXTENDS Wire

ShortMagic == <<152, 0>>
SomeQueries == {<<7>>, <<152>>}
SomeMemories == {<<0, 0>>, ShortMagic}
SomeBodies == {0, 3}
Everything == {"split", "ahead"}
=============================================================================
