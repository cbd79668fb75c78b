-------------------------- MODULE MCStackAllocator --------------------------
(***************************************************************************)
(* Small instances of IceStackAllocator, for sizes of 8 bits: arenas of no *)
(* room, one word and three; requests of zero, of a part of a word, of     *)
(* more than one word, and the largest size of all, which wraps when it is *)
(* rounded up.  Two requests of two words are more than any arena has.     *)
(***************************************************************************)
EXTENDS IceStackAllocator

MCNewSize == {0, 5, 24}
MCSize    == {0, 1, 9, SizeMod - 1}

(* NULL, an address that is nowhere, and one in the middle of the arena.     *)
MCJunk == {0, 7, 88}
=============================================================================
