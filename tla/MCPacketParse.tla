--------------------------- MODULE MCPacketParse ---------------------------
(* PacketParse with three jobs and files of up to seven lines: shorter than *)
(* the jobs, an even split, both remainders, and a count past the limit.    *)
EXTENDS PacketParse

MCLengths == {1, 2047, 2048}   \* short, the longest accepted, the first refused
MCIntMax  == 6 * 2064          \* the product just fits at the limit of 6

(* The build's own numbers satisfy the assumption the theorems rest on. *)
ASSUME ProductionLimit == EntryBytes * 1024000 <= 2147483647

=============================================================================
