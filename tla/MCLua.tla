-------------------------------- MODULE MCLua --------------------------------
(* TLC instance of LuaEcho: three connections over two descriptors.          *)
EXTENDS LuaEcho

=============================================================================
