------------------------------- MODULE CShared --------------------------------
(***************************************************************************)
(* The C shared library (cmd/cshared) under the threads of one host        *)
(* process: the Python client, JnaBackend of the Java client and the       *)
(* native mode of the Node.js client call Init and Parse, and give every   *)
(* string they get back to FreeString once they have copied it.            *)
(*                                                                         *)
(* Init is serialised by initMu.  Parse and UpdateCorrections read the     *)
(* global parser without it: a thread that no return of Init has told of   *)
(* the engine may read the old nil for a while after the store, or the new *)
(* pointer before the fields it points to (release.yml builds the library  *)
(* for arm64, which may reorder the two stores), and dereferencing a nil   *)
(* field ends the host process.  A call reads the global a second time     *)
(* (lines 76, 97): reads of one word by one thread do not go backwards, so *)
(* that read finds the engine the first one found.                         *)
(*                                                                         *)
(* Left out: what a parse computes (Pipeline), how an accepted file is     *)
(* swapped in under running parses (HotSwap), the updater (Updater).       *)
(***************************************************************************)
EXTENDS Naturals, FiniteSets

CONSTANTS
    Threads,      \* of the host process
    Nobody,       \* holds no mutex
    Addrs,        \* of the C heap
    Configs,      \* arguments of Init, NULL among them
    GoodConfigs,  \* those it can build an engine from
    Payloads,     \* arguments of Parse
    GoodPayloads, \* those that are JSON of the right shape
    Files,        \* arguments of UpdateCorrections, NULL among them
    GoodFiles     \* those that compile and pass their tests

ASSUME NobodyAssumption == Nobody \notin Threads
ASSUME ArgumentsAssumption ==
    GoodConfigs \subseteq Configs /\ GoodPayloads \subseteq Payloads /\ GoodFiles \subseteq Files

VARIABLES
    initMu,       \* the thread that holds it
    initialized,
    parser,       \* the global: NoParser, or the engine's config and rules
    assured,      \* history: threads Init told, or Parse showed, that there is an engine
    heap,         \* what an address of the C heap contains
    pc, op,       \* where a thread stands, in which call
    ptr,          \* the string a call returned
    got,          \* the host's copy of it
    crashed       \* the host process, by a panic of Go code

once == <<initialized, parser, assured>>
vars == <<initMu, once, heap, pc, op, ptr, got, crashed>>

NoParser == [none |-> TRUE]
NoPtr == [none |-> TRUE]
NoText == [none |-> TRUE]
Free == [none |-> TRUE]
ASSUME AbsentAssumption == NoPtr \notin Addrs /\ NoParser \notin Configs

Embedded == [embedded |-> TRUE]
Engine(config, rules) == [config |-> config, rules |-> rules]

Idle == [kind |-> "idle"]
InitCalls == [kind : {"init"}, config : Configs]
ParseCalls == [kind : {"parse"}, payload : Payloads]
PushCalls == [kind : {"push"}, file : Files]
Calls == {Idle} \union InitCalls \union ParseCalls \union PushCalls

\* A string says why a call failed, or is the result of a parse.
Text(call, says) == [of |-> call, says |-> says]
Texts == [of : Calls, says : {"failed", "uninitialized", "result"}]

Init ==
    /\ initMu = Nobody
    /\ initialized = FALSE
    /\ parser = NoParser
    /\ assured = {}
    /\ heap = [a \in Addrs |-> Free]
    /\ pc = [t \in Threads |-> "idle"]
    /\ op = [t \in Threads |-> Idle]
    /\ ptr = [t \in Threads |-> NoPtr]
    /\ got = [t \in Threads |-> NoText]
    /\ crashed = FALSE

\* A thread moves on, in a process that lives.
Goto(t, l) ==
    /\ ~crashed
    /\ pc' = [pc EXCEPT ![t] = l]
    /\ UNCHANGED crashed

ReturnStringStatic(t, says) ==  \* mutant: every result in the same static buffer
    /\ \E a \in Addrs :
          /\ heap' = [heap EXCEPT ![a] = Text(op[t], says)]
          /\ ptr' = [ptr EXCEPT ![t] = a]
    /\ Goto(t, "host")
    /\ UNCHANGED <<op, got>>
\* C.CString: the text in a fresh buffer, which the host has to free
ReturnString(t, says) ==
    /\ \E a \in Addrs :
          /\ heap[a] = Free
          /\ heap' = [heap EXCEPT ![a] = Text(op[t], says)]
          /\ ptr' = [ptr EXCEPT ![t] = a]
    /\ Goto(t, "host")
    /\ UNCHANGED <<op, got>>

ReturnNil(t) ==
    /\ Goto(t, "idle")
    /\ op' = [op EXCEPT ![t] = Idle]
    /\ UNCHANGED <<heap, ptr, got>>

-----------------------------------------------------------------------------
(***************************************************************************)
(* Init                                                                    *)
(***************************************************************************)
BeginInit(t) ==
    /\ pc[t] = "idle"
    /\ op' \in {[op EXCEPT ![t] = call] : call \in InitCalls}
    /\ Goto(t, "lock")
    /\ UNCHANGED <<initMu, once, heap, ptr, got>>

Lock(t) ==
    /\ pc[t] = "lock"
    /\ initMu = Nobody
    /\ initMu' = t
    /\ Goto(t, "check")
    /\ UNCHANGED <<once, heap, op, ptr, got>>

\* The first call won; this config is ignored.
InitAgain(t) ==
    /\ pc[t] = "check" /\ initialized
    /\ initMu' = Nobody
    /\ assured' = assured \union {t}
    /\ ReturnNil(t)
    /\ UNCHANGED <<initialized, parser>>

RejectConfigLocked(t) ==  \* mutant: the error path leaves the mutex locked
    /\ pc[t] = "check" /\ ~initialized
    /\ op[t].config \notin GoodConfigs
    /\ ReturnString(t, "failed")
    /\ UNCHANGED <<initMu, once>>
RejectConfigFlagged(t) ==  \* mutant: a failed Init counts as the first
    /\ pc[t] = "check" /\ ~initialized
    /\ op[t].config \notin GoodConfigs
    /\ initMu' = Nobody
    /\ initialized' = TRUE
    /\ ReturnString(t, "failed")
    /\ UNCHANGED <<parser, assured>>
\* The config does not unmarshal: nothing is initialized, the next call may be.
RejectConfig(t) ==
    /\ pc[t] = "check" /\ ~initialized
    /\ op[t].config \notin GoodConfigs
    /\ initMu' = Nobody
    /\ ReturnString(t, "failed")
    /\ UNCHANGED once

\* core.New, and the store of the global
Publish(t) ==
    /\ pc[t] = "check" /\ ~initialized
    /\ op[t].config \in GoodConfigs
    /\ parser' = Engine(op[t].config, Embedded)
    /\ Goto(t, "flag")
    /\ UNCHANGED <<initMu, initialized, assured, heap, op, ptr, got>>

FlagForgotten(t) ==  \* mutant: initialized stays FALSE
    /\ pc[t] = "flag"
    /\ initMu' = Nobody
    /\ assured' = assured \union {t}
    /\ ReturnNil(t)
    /\ UNCHANGED <<initialized, parser>>
Flag(t) ==
    /\ pc[t] = "flag"
    /\ initialized' = TRUE
    /\ initMu' = Nobody
    /\ assured' = assured \union {t}
    /\ ReturnNil(t)
    /\ UNCHANGED parser

-----------------------------------------------------------------------------
(***************************************************************************)
(* Parse and UpdateCorrections                                             *)
(***************************************************************************)
BeginCall(t) ==
    /\ pc[t] = "idle"
    /\ op' \in {[op EXCEPT ![t] = call] : call \in ParseCalls \union PushCalls}
    /\ Goto(t, "read")
    /\ UNCHANGED <<initMu, once, heap, ptr, got>>

\* What an unsynchronised read of the global may find.  A thread that was told
\* of the engine reads it; another may read either value.
MaySeeEngine(t) ==
    IF parser = NoParser THEN {FALSE} ELSE IF t \in assured THEN {TRUE} ELSE BOOLEAN

ReadParser(t) ==
    /\ pc[t] = "read"
    /\ \E seen \in MaySeeEngine(t) :
          IF seen
          THEN /\ assured' = assured \union {t}
               /\ Goto(t, "run")
               /\ UNCHANGED <<heap, op, ptr, got>>
          ELSE /\ ReturnString(t, "uninitialized")
               /\ UNCHANGED assured
    /\ UNCHANGED <<initMu, initialized, parser>>

Run(t) ==
    /\ pc[t] = "run" /\ op[t].kind = "parse"
    /\ ReturnString(t, IF op[t].payload \in GoodPayloads THEN "result" ELSE "failed")
    /\ UNCHANGED <<initMu, once>>

Apply(t) ==
    /\ pc[t] = "run" /\ op[t].kind = "push"
    /\ IF op[t].file \in GoodFiles
       THEN /\ parser' = Engine(parser.config, op[t].file)
            /\ ReturnNil(t)
       ELSE /\ ReturnString(t, "failed")
            /\ UNCHANGED parser
    /\ UNCHANGED <<initMu, initialized, assured>>

\* The pointer was seen before what it points to: until Init's unlock the fields
\* a call reads may still be nil to it.  Nothing recovers the panic.  A payload
\* that does not unmarshal is answered before any field is read.
SeeHalfMade(t) ==
    /\ ~crashed
    /\ pc[t] = "run" /\ ~initialized
    /\ op[t].kind = "parse" => op[t].payload \in GoodPayloads
    /\ crashed' = TRUE
    /\ UNCHANGED <<initMu, once, heap, pc, op, ptr, got>>

-----------------------------------------------------------------------------
(***************************************************************************)
(* The host                                                                *)
(***************************************************************************)
Copy(t) ==
    /\ pc[t] = "host"
    /\ got' = [got EXCEPT ![t] = heap[ptr[t]]]
    /\ Goto(t, "copied")
    /\ UNCHANGED <<initMu, once, heap, op, ptr>>

FreeStringForgotten(t) ==  \* mutant: the pointer is lost with the conversion
    /\ pc[t] = "copied"
    /\ ptr' = [ptr EXCEPT ![t] = NoPtr]
    /\ got' = [got EXCEPT ![t] = NoText]
    /\ op' = [op EXCEPT ![t] = Idle]
    /\ Goto(t, "idle")
    /\ UNCHANGED <<initMu, once, heap>>
FreeString(t) ==
    /\ pc[t] = "copied"
    /\ heap' = [heap EXCEPT ![ptr[t]] = Free]
    /\ ptr' = [ptr EXCEPT ![t] = NoPtr]
    /\ got' = [got EXCEPT ![t] = NoText]
    /\ op' = [op EXCEPT ![t] = Idle]
    /\ Goto(t, "idle")
    /\ UNCHANGED <<initMu, once>>

InCall(t) ==
    \/ InitAgain(t) \/ RejectConfig(t) \/ Publish(t) \/ Flag(t)
    \/ ReadParser(t) \/ Run(t) \/ Apply(t)
    \/ Copy(t) \/ FreeString(t)

Next ==
    \E t \in Threads :
        BeginInit(t) \/ BeginCall(t) \/ Lock(t) \/ InCall(t) \/ SeeHalfMade(t)

Spec == Init /\ [][Next]_vars

\* Threads run, and sync.Mutex starves no waiter (its starvation mode hands the
\* lock over in order).
FairSpec == Spec /\ \A t \in Threads : WF_vars(InCall(t)) /\ SF_vars(Lock(t))

-----------------------------------------------------------------------------
(***************************************************************************)
(* Properties                                                              *)
(***************************************************************************)
\* The type invariant, with the exclusion initMu is for.
TypeOK ==
    /\ initMu \in Threads \union {Nobody}
    /\ initialized \in BOOLEAN
    /\ parser = NoParser \/ parser \in [config : GoodConfigs, rules : GoodFiles \union {Embedded}]
    /\ assured \subseteq Threads
    /\ heap \in [Addrs -> Texts \union {Free}]
    /\ pc \in [Threads -> {"idle", "lock", "check", "flag", "read", "run", "host", "copied"}]
    /\ op \in [Threads -> Calls]
    /\ ptr \in [Threads -> Addrs \union {NoPtr}]
    /\ got \in [Threads -> Texts \union {NoText}]
    /\ crashed \in BOOLEAN
    /\ \A t \in Threads : pc[t] \in {"check", "flag"} <=> initMu = t

\* The engine is a process singleton (main.go:19-23): it is published once, from
\* a config that is good, no later Init replaces it, and whoever was told of it
\* was told the truth, with Init, Parse and UpdateCorrections calls of any number
\* of threads overlapping.
Singleton == INSTANCE Once WITH
    Values <- GoodConfigs, Clients <- Threads, None <- NoParser,
    cell <- IF parser = NoParser THEN NoParser ELSE parser.config
FirstInitWins == Singleton!Spec

\* A thread whose Init returned success, or that has parsed, is never answered
\* "Parser not initialized", though Parse reads the global without the mutex.
InitializedStays ==
    \A t \in Threads :
        pc[t] = "host" /\ heap[ptr[t]].says = "uninitialized" => t \notin assured

\* The host reads the answer to its own call, whatever other threads allocate and
\* free meanwhile.
ReadsOwnAnswer == \A t \in Threads : pc[t] = "copied" => got[t].of = op[t]

\* A buffer belongs to one call under way, and is given back by its end.
EachStringFreed ==
    /\ \A a \in Addrs : heap[a] # Free => \E t \in Threads : ptr[t] = a
    /\ \A t, u \in Threads : ptr[t] = ptr[u] /\ ptr[t] # NoPtr => t = u
    /\ \A t \in Threads : ptr[t] # NoPtr <=> pc[t] \in {"host", "copied"}

\* Every call of every thread returns, unless a call that raced with Init took the
\* process down: no path out of Init keeps the mutex.
CallsReturn == \A t \in Threads : pc[t] # "idle" ~> pc[t] = "idle" \/ crashed

=============================================================================
