----------------------------- MODULE ForgetfulMap -----------------------------
(***************************************************************************)
(* What a cache promises to those who read it: a key has the value of the  *)
(* put that ended last, or none.  Any key may be forgotten in any step;    *)
(* nothing comes back but by a put that is under way.  NodeManager takes   *)
(* the local cache to be this.                                             *)
(***************************************************************************)
CONSTANTS Key, Value, NoValue

VARIABLES
  content,   \* content[k]: the value of k, or NoValue
  puts       \* the puts under way, as pairs of a key and a value

vars == <<content, puts>>

Init ==
  /\ content = [k \in Key |-> NoValue]
  /\ puts = {}

Forgetting(S) == \A k \in S : content'[k] \in {content[k], NoValue}

Forget == UNCHANGED puts /\ Forgetting(Key)

StartPut(k, v) == puts' = puts \union {<<k, v>>} /\ Forgetting(Key)

EndPut(k, v) ==
  /\ <<k, v>> \in puts
  /\ puts' = puts \ {<<k, v>>}
  /\ content'[k] \in {v, NoValue}
  /\ Forgetting(Key \ {k})

Next == Forget \/ \E k \in Key, v \in Value : StartPut(k, v) \/ EndPut(k, v)

Spec == Init /\ [][Next]_vars
=============================================================================
