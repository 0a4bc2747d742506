------------------------------ MODULE CallSteps ------------------------------
(* The vocabulary in which the modules of the native calls write down the  *)
(* control flow of a C function: a graph from labels to steps.  A step is  *)
(* what the function does with the resources it holds at that place, and   *)
(* where it goes on.  Every call into the operating system may fail, unless *)
(* the code has no branch for that.                                        *)
EXTENDS Sequences

(* Where a function ends, and the failure branch of what has none. *)
Ends == {"ok", "failed"}
Never == "never"

(* A call that yields the resource r, made with the resources in "with".   *)
Get(r, with, ok, fail) ==
  [op |-> "get", what |-> r, with |-> with, ok |-> ok, fail |-> fail]

(* A call, or a test of what a call answered, that yields nothing.         *)
Use(with, ok, fail) ==
  [op |-> "use", what |-> "", with |-> with, ok |-> ok, fail |-> fail]

(* Releases, in this order: Put each resource that is held, as the code    *)
(* that tests each pointer does, Drop without a test.                      *)
Put(rs, ok) ==
  [op |-> "release", what |-> rs, with |-> {}, ok |-> ok, fail |-> Never]
Drop(rs, ok) ==
  [op |-> "release", what |-> rs, with |-> {rs[i] : i \in DOMAIN rs}, ok |-> ok, fail |-> Never]

(* Is r held? *)
Test(r, ok, fail) ==
  [op |-> "test", what |-> r, with |-> {}, ok |-> ok, fail |-> fail]

(* A call of another function of the project. *)
Call(f, ok, fail) ==
  [op |-> "call", what |-> f, with |-> {}, ok |-> ok, fail |-> fail]

(* A function: the resources it takes over from its caller, those it only  *)
(* borrows, those it may find or add but never releases, the resources it  *)
(* hands over when it succeeds, one set per outcome, and its graph, which  *)
(* begins at "start".                                                      *)
Fn(takes, borrows, shares, yields, graph) ==
  [takes |-> takes, borrows |-> borrows, shares |-> shares, yields |-> yields, graph |-> graph]

(* A function that keeps nothing of what it acquires. *)
Query(takes, graph) == Fn(takes, {}, {}, {{}}, graph)

(* What a listing gathered in "buf" becomes an answer of MoonBit's heap.    *)
AnswerBuffer ==
  [empty |-> Test("buf", "bytes", "none"),
   none  |-> Get("bytes", {}, "ok", "ok"),
   bytes |-> Get("bytes", {"buf"}, "free", "free"),
   free  |-> Drop(<<"buf">>, "ok")]
=============================================================================
