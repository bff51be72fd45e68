------------------------------ MODULE LuaEcho ------------------------------
(***************************************************************************)
(* sample/echo_server.lua over the bindings of lua_api: connections that   *)
(* belong to Lua's garbage collector.                                      *)
(*                                                                         *)
(* A connection made by Lua is a userdata that owns a tcp_connection; the  *)
(* collector destroys it when Lua cannot reach it.  The conn a handler is  *)
(* given is another userdata, which points to the same object, owns nothing*)
(* and keeps nothing alive.  What keeps a connection is conn_table, keyed  *)
(* by the descriptor.  The collector may run at any step of Lua.           *)
(* The C++ closure that calls the handler is a member of the object: it is *)
(* destroyed with the object and, before that, by close().                 *)
(*                                                                         *)
(* The specification is LuaSpec, with names that leave room for another    *)
(* module beside it.                                                       *)
(***************************************************************************)
EXTENDS Functions

CONSTANTS
  Conn,   \* tcp_connection objects
  Fd,     \* descriptor numbers
  NULL

ASSUME LuaAssumption == NULL \notin Conn \cup Fd

VARIABLES
  obj,    \* each object: "none", "live", "closed" by close(), or "freed"
  fd,     \* its descriptor while it is live
  table,  \* conn_table
  frame,  \* the handler that is running: its connection and how far it is
  used    \* what has been done with an object, or a closure, that was destroyed

luaVars == <<obj, fd, table, frame, used>>

NoFrame == [conn |-> NULL, at |-> "none"]
Idle == frame = NoFrame
At(c, pc) == frame = [conn |-> c, at |-> pc]

LuaInit ==
  /\ obj = [c \in Conn |-> "none"] /\ fd = [c \in Conn |-> NULL]
  /\ table = [f \in Fd |-> NULL]
  /\ frame = NoFrame /\ used = {}

------------------------------------------------------------------------------
(* The accept handler. *)

\* local conn = event.tcp_connection(disp, fd); conn:set_event_handler(...)
AcceptCall(c, f) ==
  /\ Idle /\ obj[c] = "none" /\ f \notin Range(fd)
  /\ obj' = [obj EXCEPT ![c] = "live"] /\ fd' = [fd EXCEPT ![c] = f]
  /\ frame' = [conn |-> c, at |-> "local"]
  /\ UNCHANGED <<table, used>>

\* Mutation: the connection is kept by the local variable only.
AcceptReturnOnly(c) ==
  /\ At(c, "local") /\ frame' = NoFrame
  /\ UNCHANGED <<obj, fd, table, used>>

\* conn_table[conn:file_descriptor()] = conn, return true
AcceptReturn(c) ==
  /\ At(c, "local")
  /\ table' = [table EXCEPT ![fd[c]] = c]
  /\ frame' = NoFrame
  /\ UNCHANGED <<obj, fd, used>>

------------------------------------------------------------------------------
(* The connection's handler. *)

\* Mutation: the entry is dropped before the event is looked at.
CallForgets(c) ==
  /\ Idle /\ obj[c] = "live"
  /\ table' = [table EXCEPT ![fd[c]] = NULL]
  /\ frame' = [conn |-> c, at |-> "handler"]
  /\ UNCHANGED <<obj, fd, used>>

\* An event of a live connection: the closure calls the function of the registry.
Call(c) ==
  /\ Idle /\ obj[c] = "live"
  /\ frame' = [conn |-> c, at |-> "handler"]
  /\ UNCHANGED <<obj, fd, table, used>>

\* A method of the object is called when the collector has taken it.
Touched(c, what) == used' = IF obj[c] = "freed" THEN used \cup {what} ELSE used

\* event_code_read: the data is echoed and the handler returns.
EchoData(c) ==
  /\ At(c, "handler") /\ frame' = [frame EXCEPT !.at = "returned"]
  /\ Touched(c, "read_buffer")
  /\ UNCHANGED <<obj, fd, table>>

\* Mutation: the connection is closed first, when it has no descriptor to forget.
CloseBeforeForget(c) ==
  /\ At(c, "handler")
  /\ obj' = [obj EXCEPT ![c] = "closed"] /\ fd' = [fd EXCEPT ![c] = NULL]
  /\ frame' = [frame EXCEPT !.at = "returned"]
  /\ UNCHANGED <<table, used>>

\* conn_table[conn:file_descriptor()] = nil
Forget(c) ==
  /\ At(c, "handler")
  /\ table' = [f \in Fd |-> IF f = fd[c] THEN NULL ELSE table[f]]
  /\ frame' = [frame EXCEPT !.at = "forgotten"]
  /\ Touched(c, "file_descriptor")
  /\ UNCHANGED <<obj, fd>>

\* conn:close(): the object's parts die with the closure that is running; the object
\* does not, unless the collector has taken it in the meantime.
Close(c) ==
  /\ At(c, "forgotten")
  /\ obj' = [obj EXCEPT ![c] = IF @ = "live" THEN "closed" ELSE @]
  /\ fd' = [fd EXCEPT ![c] = NULL]
  /\ frame' = [frame EXCEPT !.at = "returned"]
  /\ Touched(c, "close")
  /\ UNCHANGED table

\* Mutation: the closure fetches a result by its ref, as the acceptor's closure does.
ReturnResult(c) ==
  /\ At(c, "returned") /\ frame' = NoFrame
  /\ used' = IF obj[c] # "live" THEN used \cup {"ref"} ELSE used
  /\ UNCHANGED <<obj, fd, table>>

\* lua_call(ref->L(), 2, 0) is the closure's last statement.
Return(c) ==
  /\ At(c, "returned") /\ frame' = NoFrame
  /\ UNCHANGED <<obj, fd, table, used>>

------------------------------------------------------------------------------
(* The collector. *)

Reachable(c) == c \in Range(table) \/ At(c, "local")

\* ~tcp_connection, at any allocation of a handler that is running, be it the
\* connection's own or another one's; between handlers it stands for a collection
\* with which the next handler begins.
Collect(c) ==
  /\ obj[c] \in {"live", "closed"} /\ ~Reachable(c)
  /\ obj' = [obj EXCEPT ![c] = "freed"] /\ fd' = [fd EXCEPT ![c] = NULL]
  /\ UNCHANGED <<table, frame, used>>

\* The address is used again only after the handler has returned.
Reuse(c) ==
  /\ obj[c] = "freed" /\ frame.conn # c
  /\ obj' = [obj EXCEPT ![c] = "none"]
  /\ UNCHANGED <<fd, table, frame, used>>

LuaNext ==
  \E c \in Conn :
    \/ \E f \in Fd : AcceptCall(c, f)
    \/ AcceptReturn(c)
    \/ Call(c) \/ EchoData(c) \/ Forget(c) \/ Close(c) \/ Return(c)
    \/ Collect(c) \/ Reuse(c)

LuaSpec == LuaInit /\ [][LuaNext]_luaVars

------------------------------------------------------------------------------
(* Properties. *)

\* An entry of conn_table is a live connection under its own descriptor: a number
\* that is used again never finds, or overwrites, the connection that had it.
TableSound == \A f \in Fd : table[f] # NULL => obj[table[f]] = "live" /\ fd[table[f]] = f

\* A live connection stays reachable until its own handler forgets it, so that the
\* collector never ends a connection of its own accord.
KeptByTable ==
  \A c \in Conn :
    obj[c] = "live" => Reachable(c) \/ At(c, "forgotten")

\* A handler closes or loses its own connection while it runs, and with it the closure
\* that called it.  The one statement that can reach what is gone is conn:close(), behind
\* the statement that drops the entry: no other method of the connection, and not the
\* closure, which has to leave its ref alone once lua_call returns.
GoneIsLeftAlone == used \subseteq {"close"}

=============================================================================
