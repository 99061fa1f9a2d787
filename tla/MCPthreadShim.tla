--------------------------- MODULE MCPthreadShim ---------------------------
(* Three threads over two mutexes, a condition, a rwlock and a once word.  *)
EXTENDS PthreadShim, FiniteSetsExt

(* The lowest free address is given out again first. *)
MCOffer(S) == IF S = {} THEN {} ELSE {Min(S)}

Call(o, w) == [op |-> o, on |-> w]
Locked(m, body) == <<Call("lock", m)>> \o body \o <<Call("unlock", m)>>
Reads(r) == <<Call("rdlock", r), Call("rwunlock", r)>>
Writes(r) == <<Call("wrlock", r), Call("rwunlock", r)>>
Waits(c, m) == Locked(m, <<Call("wait", c)>>)
Twice(m) == Locked(m, Locked(m, <<>>))
Start == <<Call("create", "a"), Call("create", "b")>>

MCMutexOf == [c \in {"c"} |-> "m"]

MCScripts == [t \in {"main", "a", "b"} |->
  CASE t = "main" ->
         {Start \o Twice("static") \o Locked("m", <<Call("broadcast", "c")>>) \o Writes("r"),
          <<[op |-> "init", on |-> "m", kind |-> "recursive"], Call("condinit", "c")>> \o Start \o
          Twice("m") \o Locked("m", <<Call("broadcast", "c")>>) \o
          <<Call("destroy", "static"), [op |-> "init", on |-> "static", kind |-> "recursive"]>> \o
          Twice("static") \o <<Call("conddestroy", "c")>> \o Reads("r")}
    [] t = "a" ->
         {<<Call("once", "o")>> \o Waits("c", "m") \o Reads("r"),
          Writes("r") \o Twice("static") \o Reads("r")}
    [] t = "b" ->
         {Waits("c", "m") \o <<Call("once", "o")>> \o Writes("r"),
          Reads("r") \o Twice("static") \o <<Call("once", "o")>>}]
=============================================================================
