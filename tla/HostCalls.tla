------------------------------ MODULE HostCalls ------------------------------
(* The native calls one after the other, on one thread, with every call    *)
(* into the operating system succeeding or failing as it likes: what each  *)
(* function holds, uses, releases and hands over on each of its paths,     *)
(* also of the paths of the functions it calls.                            *)
EXTENDS Integers, WasapiCalls, PosixCalls, CoreAudioCalls

Fns == WasapiFns @@ PosixFns @@ CoreAudioFns

(* What a resource needs as long as it lives: an interface needs COM, if   *)
(* this call initialised it; parameters, their device; a client that may   *)
(* call process, and a thread, all that they use.                          *)
Interfaces == {"enumerator", "collection", "device", "endpoint", "client", "client2", "props"}
Needs == [thread |-> Shared \cup {"event", "pcm", "ring1", "ring2"},
          active |-> {"client", "ports", "rings", "ring1", "ring2", "stream"},
          hw     |-> {"pcm"}]
           @@ [i \in Interfaces |-> {"com"}]

Users(r) == {u \in DOMAIN Needs : r \in Needs[u]}

-----------------------------------------------------------------------------
VARIABLES fn,     \* the function that runs
          at,     \* the label of its next step, or how it ended
          held,   \* the resources it can release, its caller's included
          stack   \* its callers, the nearest first: where each one is, and
                  \* what it has not handed over

vars == <<fn, at, held, stack>>

Step == Fns[fn].graph[at]
At(op) == at \notin Ends /\ Step.op = op

(* A function is entered with what its caller hands it; shared resources   *)
(* may be there already or not.                                            *)
Entered == \E s \in SUBSET Fns[fn].shares : held = Fns[fn].takes \cup Fns[fn].borrows \cup s

Init == fn \in DOMAIN Fns /\ at = "start" /\ Entered /\ stack = <<>>

GoesOn == at' = Step.ok /\ UNCHANGED <<fn, stack>>
GoesWrong == at' = Step.fail /\ UNCHANGED <<fn, stack>>

Acquire == At("get") /\ GoesOn /\ held' = held \cup {Step.what}

Succeed == At("use") /\ GoesOn /\ UNCHANGED held

Fail == (At("get") \/ At("use")) /\ Step.fail # Never /\ GoesWrong /\ UNCHANGED held

Release == At("release") /\ GoesOn /\ held' = held \ {Step.what[i] : i \in DOMAIN Step.what}

Branch == At("test") /\ (IF Step.what \in held THEN GoesOn ELSE GoesWrong) /\ UNCHANGED held

Callee == Fns[Step.what]

CallFn ==
  /\ At("call")
  /\ fn' = Step.what /\ at' = "start"
  /\ held' = Callee.takes \cup Callee.borrows \cup (held \cap Callee.shares)
  /\ stack' = <<[fn |-> fn, at |-> at, held |-> held \ Callee.takes]>> \o stack

Return ==
  /\ at \in Ends /\ stack # <<>>
  /\ LET caller == Head(stack)
         step == Fns[caller.fn].graph[caller.at]
     IN /\ fn' = caller.fn
        /\ at' = IF at = "ok" THEN step.ok ELSE step.fail
        /\ held' = caller.held \cup held
  /\ stack' = Tail(stack)

(* The program goes on to another call. *)
NextCall == /\ at \in Ends /\ stack = <<>>
            /\ at' = "start"
            /\ \E f \in DOMAIN Fns, s \in SUBSET {"buf"} :
                 /\ s \subseteq Fns[f].shares
                 /\ fn' = f
                 /\ held' = Fns[f].takes \cup Fns[f].borrows \cup s
            /\ UNCHANGED stack

Next == Acquire \/ Succeed \/ Fail \/ Release \/ Branch \/ CallFn \/ Return \/ NextCall

Spec == Init /\ [][Next]_vars

-----------------------------------------------------------------------------
(* Properties.                                                             *)

(* However many of its calls failed, a function that ends has released     *)
(* what it acquired and what it was given, once: a failed one keeps        *)
(* nothing, a successful one what it hands over, and a resource that is    *)
(* held is never replaced by another one of its kind.  A function that is  *)
(* called without a look at its answer does not fail.                      *)
Kept == held \ (Fns[fn].borrows \cup Fns[fn].shares)
NothingLeaked ==
  /\ at # Never
  /\ at = "failed" => Kept = {}
  /\ at = "ok" => Kept \in Fns[fn].yields
  /\ At("get") => Step.what \notin held
  /\ At("call") => \A y \in Callee.yields : y \cap (held \ Callee.takes) = {}

(* Nothing is used, lent or released that is not held, nothing of the      *)
(* caller's is released, and nothing while something that is held needs    *)
(* it, in the function or in a caller that handed it over.  The one        *)
(* exception is the join of a thread that JACK's build could not create.   *)
Misuse == {<<"jack_stream_new", "joinNone">>}
InOrder(rs) == \A i \in DOMAIN rs :
  rs[i] \in held => Users(rs[i]) \cap (held \ {rs[j] : j \in 1..i}) = {}
LeftAlone(rs) == \A i \in DOMAIN rs, k \in DOMAIN stack :
  rs[i] \in Fns[fn].takes => Users(rs[i]) \cap stack[k].held = {}
UsedWhileHeld ==
  at \notin Ends /\ <<fn, at>> \notin Misuse =>
    /\ Step.with \subseteq held
    /\ At("call") => Callee.takes \cup Callee.borrows \subseteq held
    /\ At("release") => /\ \A i \in DOMAIN Step.what :
                             Step.what[i] \notin Fns[fn].borrows \cup Fns[fn].shares
                        /\ InOrder(Step.what)
                        /\ LeftAlone(Step.what)
=============================================================================
