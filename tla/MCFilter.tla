------------------------------ MODULE MCFilter ------------------------------
(* TLC instance of FilterServer, in C++ and in Lua: blocks of two bytes and a*)
(* client that sends up to four, of the letters 'x', 'y', 'z' and one byte   *)
(* that is no letter.                                                        *)
EXTENDS FilterServer

=============================================================================
