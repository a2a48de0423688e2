------------------------------- MODULE Fetch -------------------------------
(***************************************************************************)
(* NetSurf's fetches: the queue and the ring of content/fetch.c, the curl  *)
(* fetcher of content/fetchers/curl.c that carries them out, and what      *)
(* content/llcache.c does with the messages it gets.  All of it runs in    *)
(* one thread, but the layers call each other back: while curl works on a  *)
(* transfer, the cache may abort it, abort others and start new ones.      *)
(*                                                                         *)
(* libcurl is the environment: it hands over headers and data, and ends a  *)
(* transfer with a result.  Of a message, only what it means for the fetch *)
(* counts: there is more to come, it ends, or it ends by the cache's own   *)
(* abort (a redirect, "not modified", or a request for authentication).    *)
(***************************************************************************)
EXTENDS Integers, Sequences, FiniteSets

CONSTANTS NumFetches,      \* bound: fetches started
          Objects,         \* cache objects, the users of fetches
          Null,
          HostOf,          \* the host of each fetch's URL
          MaxFetchers, MaxPerHost,
          StartMayFail,    \* a curl handle may go bad
          PerformMayFail   \* curl_multi_perform may return an error

ASSUME FetchAssumption == /\ NumFetches \in Nat
                          /\ Null \notin (1..NumFetches) \cup Objects
                          /\ MaxFetchers \in Nat \ {0}
                          /\ MaxPerHost \in Nat \ {0}
                          /\ StartMayFail \in BOOLEAN
                          /\ PerformMayFail \in BOOLEAN

\* Numbered in the order of their start.
Fetches == 1..NumFetches

VARIABLES queue_ring,   \* queued fetches, oldest first
          fetch_ring,   \* fetches the fetcher has started
          ctx,          \* struct fetch and struct curl_fetch_info
          held,         \* each object's fetch.fetch
          inside_curl,
          scheduled,    \* fetcher_poll is on the scheduler's list
          pc,           \* where fetcher_poll is; "idle" between two calls
          cur,          \* the fetch in hand
          verdict,      \* how fetch_curl_done has decided
          late,         \* a message came after the end of its fetch
          badHandle     \* a start has failed outside curl

vars == <<queue_ring, fetch_ring, ctx, held, inside_curl, scheduled, pc, cur,
          verdict, late, badHandle>>

-----------------------------------------------------------------------------
(* A fetch.  ended: last_msg is a final one, or it was aborted. *)
Unborn == [life |-> "unborn", owner |-> Null, fetch_is_active |-> FALSE,
           handle |-> FALSE, abort |-> FALSE, stopped |-> FALSE,
           had_headers |-> FALSE, sent_ssl_chain |-> FALSE,
           ended |-> FALSE, result |-> "none"]

Freed == [Unborn EXCEPT !.life = "freed"]

Live == {f \in Fetches : ctx[f].life = "live"}

Without(q, f) ==
    IF \E i \in DOMAIN q : q[i] = f
    THEN LET i == CHOOSE i \in DOMAIN q : q[i] = f
         IN  SubSeq(q, 1, i - 1) \o SubSeq(q, i + 1, Len(q))
    ELSE q

-----------------------------------------------------------------------------
(* fetch_dispatch_jobs, on a queue and a ring s.  fetch_curl_start refuses *)
(* while curl is at work, and the fetch goes to the end of the queue.      *)
CountByHost(ring, h) == Cardinality({f \in ring : HostOf[f] = h})

\* Skipping the neighbours of the same host finds the same fetch.
Candidates(s) ==
    {i \in DOMAIN s.queue : CountByHost(s.ring, HostOf[s.queue[i]]) < MaxPerHost}

MayDispatch(s) == Cardinality(s.ring) < MaxFetchers /\ Candidates(s) # {}

Chosen(s) == s.queue[CHOOSE i \in Candidates(s) :
                        \A j \in Candidates(s) : i <= j]

Dispatched(s) == [queue |-> Without(s.queue, Chosen(s)),
                  ring |-> s.ring \cup {Chosen(s)}]

PutBack(s) == [s EXCEPT !.queue = Append(Without(@, Chosen(s)), Chosen(s))]

DispatchedUpTo(s) ==
    LET after[n \in 0..Len(s.queue)] ==
            IF n = 0 THEN s
            ELSE IF MayDispatch(after[n - 1]) THEN Dispatched(after[n - 1])
            ELSE after[n - 1]
    IN  after

Refused(s) == IF MayDispatch(s) THEN PutBack(s) ELSE s

Dispatch(s) ==
    LET after == DispatchedUpTo(s)
        failed == {PutBack(after[n]) : n \in {m \in DOMAIN after : MayDispatch(after[m])}}
    IN  /\ \E t \in IF inside_curl THEN {Refused(s)}
                    ELSE {after[Len(s.queue)]}
                         \cup (IF StartMayFail THEN failed ELSE {}) :
               queue_ring' = t.queue /\ fetch_ring' = t.ring
        /\ badHandle' = (badHandle
               \/ (~inside_curl /\ <<queue_ring', fetch_ring'>> #
                     <<after[Len(s.queue)].queue, after[Len(s.queue)].ring>>))

\* The fetches that a dispatch has started.
WithStarted(c) ==
    [f \in Fetches |-> IF f \in fetch_ring' \ fetch_ring
                       THEN [c[f] EXCEPT !.fetch_is_active = TRUE,
                                         !.handle = TRUE]
                       ELSE c[f]]

-----------------------------------------------------------------------------
IsNext(f) == /\ ctx[f].life = "unborn"
             /\ \A g \in 1..(f - 1) : ctx[g].life # "unborn"

(* fetch_start, for object o, the contexts being c *)
\* MUTANT: the poll is not scheduled.
StartUnpolled(o, f, c) ==
    /\ IsNext(f)
    /\ held' = [held EXCEPT ![o] = f]
    /\ Dispatch([queue |-> Append(queue_ring, f), ring |-> fetch_ring])
    /\ ctx' = WithStarted([c EXCEPT ![f] = [Unborn EXCEPT !.life = "live",
                                                        !.owner = o]])
    /\ UNCHANGED scheduled

Start(o, f, c) ==
    /\ IsNext(f)
    /\ held' = [held EXCEPT ![o] = f]
    /\ Dispatch([queue |-> Append(queue_ring, f), ring |-> fetch_ring])
    /\ ctx' = WithStarted([c EXCEPT ![f] = [Unborn EXCEPT !.life = "live",
                                                        !.owner = o]])
    /\ scheduled' = (scheduled \/ fetch_ring' # {})

\* The cache acts between two polls and in the callbacks.
Callbacks == {"in_header", "in_data", "in_headers", "in_done", "in_last"}

fetch_start(o, f) ==
    /\ pc \in Callbacks \cup {"idle"}
    /\ held[o] = Null
    /\ Start(o, f, ctx)
    /\ UNCHANGED <<inside_curl, pc, cur, verdict, late>>

(* fetch_remove_from_queues *)
\* MUTANT: a fetch is only looked for in the ring.
RemoveFromRing(f) == /\ fetch_ring' = fetch_ring \ {f}
                     /\ UNCHANGED queue_ring

RemoveFromQueues(f) ==
    IF ctx[f].fetch_is_active
    THEN fetch_ring' = fetch_ring \ {f} /\ UNCHANGED queue_ring
    ELSE queue_ring' = Without(queue_ring, f) /\ UNCHANGED fetch_ring

(* fetch_abort and fetch_curl_abort *)
\* While curl is at work its transfer is only marked.
Deferred(f) == ctx[f].handle /\ inside_curl

AbortFetch(f, c) ==
    IF Deferred(f)
    THEN /\ ctx' = [c EXCEPT ![f].ended = TRUE, ![f].abort = TRUE]
         /\ UNCHANGED <<queue_ring, fetch_ring>>
    ELSE /\ ctx' = [c EXCEPT ![f] = Freed]
         /\ RemoveFromQueues(f)

fetch_abort(o) ==
    /\ pc \in Callbacks \cup {"idle"}
    /\ held[o] # Null
    /\ AbortFetch(held[o], ctx)
    /\ held' = [held EXCEPT ![o] = Null]
    /\ UNCHANGED <<inside_curl, scheduled, pc, cur, verdict, late, badHandle>>

-----------------------------------------------------------------------------
LetGo(o) == held' = [held EXCEPT ![o] = Null]

(* fetch_send_callback and llcache_fetch_callback, on a message to f's     *)
(* owner: there is "more" to come, the fetch "ends", or it is "moved" and  *)
(* the cache aborts it.                                                    *)
SendCallback(f, kind, c) ==
    LET o == ctx[f].owner
        told == [c EXCEPT ![f].ended = (@ \/ kind # "more")]
    IN  /\ late' = (late \/ ctx[f].ended)
        /\ \/ /\ kind = "more"
              /\ ctx' = told
              /\ UNCHANGED <<held, queue_ring, fetch_ring>>
           \/ /\ kind = "ends"
              /\ ctx' = told
              /\ LetGo(o)
              /\ UNCHANGED <<queue_ring, fetch_ring>>
           \/ /\ kind = "moved" /\ held[o] # Null
              /\ AbortFetch(held[o], told)
              /\ LetGo(o)

\* fetch_abort(NULL), or the HTTP code of no fetch.
NobodyToAbort(f) ==
    /\ held[ctx[f].owner] = Null
    /\ late' = (late \/ ctx[f].ended)
    /\ pc' = "crashed"
    /\ UNCHANGED <<queue_ring, fetch_ring, ctx, held>>

-----------------------------------------------------------------------------
(* fetcher_poll and fetch_curl_poll *)
fetcher_poll ==
    /\ pc = "idle" /\ scheduled
    /\ Dispatch([queue |-> queue_ring, ring |-> fetch_ring])
    /\ ctx' = WithStarted(ctx)
    /\ scheduled' = FALSE
    /\ IF fetch_ring' = {} THEN UNCHANGED <<pc, inside_curl>>
       ELSE pc' = "perform" /\ inside_curl' = TRUE
    /\ UNCHANGED <<held, cur, verdict, late>>

Transfers == {f \in Live : ctx[f].handle /\ ctx[f].result = "none"}

\* A curl callback returned 0.
StopTransfer(f) ==
    /\ ctx' = [ctx EXCEPT ![f].stopped = TRUE]
    /\ UNCHANGED <<queue_ring, fetch_ring, held, pc, cur, late>>

unchangedByCurl == <<inside_curl, scheduled, verdict, badHandle>>

fetch_curl_header(f) ==
    /\ pc = "perform" /\ f \in Transfers /\ ~ctx[f].stopped
    /\ \/ ctx[f].abort /\ StopTransfer(f)
       \/ /\ ~ctx[f].abort
          /\ SendCallback(f, "more", [ctx EXCEPT ![f].sent_ssl_chain = TRUE])
          /\ pc' = "in_header" /\ cur' = f
    /\ UNCHANGED unchangedByCurl

fetch_curl_progress(f) ==
    /\ pc = "perform" /\ f \in Transfers /\ ~ctx[f].stopped
    /\ ~ctx[f].abort
    /\ SendCallback(f, "more", ctx)
    /\ pc' = "in_header" /\ cur' = f
    /\ UNCHANGED unchangedByCurl

\* Data comes after headers; the first of it has them looked at.
fetch_curl_data(f) ==
    /\ pc = "perform" /\ f \in Transfers /\ ~ctx[f].stopped
    /\ ctx[f].sent_ssl_chain
    /\ \/ ctx[f].abort /\ StopTransfer(f)
       \/ /\ ~ctx[f].abort
          /\ SendCallback(f, "more", [ctx EXCEPT ![f].had_headers = TRUE])
          /\ pc' = "in_data" /\ cur' = f
       \/ /\ ~ctx[f].abort /\ ~ctx[f].had_headers
          /\ \E kind \in {"ends", "moved"} :
               SendCallback(f, kind, [ctx EXCEPT ![f].had_headers = TRUE])
          /\ pc' = "in_headers" /\ cur' = f
    /\ UNCHANGED unchangedByCurl

HeaderReturns == /\ pc = "in_header"
                 /\ pc' = "perform" /\ cur' = Null
                 /\ UNCHANGED <<queue_ring, fetch_ring, ctx, held, late,
                                unchangedByCurl>>

\* An abort during the callback stops the transfer; so do final headers.
DataReturns ==
    /\ pc \in {"in_data", "in_headers"}
    /\ ctx' = [ctx EXCEPT ![cur].stopped = (pc = "in_headers" \/ ctx[cur].abort)]
    /\ pc' = "perform" /\ cur' = Null
    /\ UNCHANGED <<queue_ring, fetch_ring, held, late, unchangedByCurl>>

\* A stopped transfer ends with a write error; a complete or a partial one
\* has had headers.
Completes(f) ==
    /\ pc = "perform" /\ f \in Transfers
    /\ \E r \in IF ctx[f].stopped THEN {"write"}
                ELSE {"error", "timedout"} \cup
                     (IF ctx[f].sent_ssl_chain THEN {"ok", "partial"} ELSE {}) :
         ctx' = [ctx EXCEPT ![f].result = r]
    /\ UNCHANGED <<queue_ring, fetch_ring, held, pc, cur, late,
                   unchangedByCurl>>

\* The poll returns with inside_curl still set.
PerformFails == /\ pc = "perform" /\ PerformMayFail
                /\ pc' = "idle" /\ scheduled' = TRUE
                /\ UNCHANGED <<queue_ring, fetch_ring, ctx, held, inside_curl,
                               cur, verdict, late, badHandle>>

PerformReturns == /\ pc = "perform"
                  /\ pc' = "results"
                  /\ UNCHANGED <<queue_ring, fetch_ring, ctx, held, cur, late,
                                 unchangedByCurl>>

-----------------------------------------------------------------------------
(* fetch_curl_done *)
Completed == {f \in Live : ctx[f].result # "none"}

\* The headers of a fetch without a body are looked at now; of a partial
\* one, even if it was aborted.
HeadersToLookAt(f) ==
    /\ ~ctx[f].had_headers
    /\ \/ ctx[f].result = "ok" /\ ~ctx[f].abort
       \/ ctx[f].result = "partial"

\* MUTANT: a partial file is nobody's business.
VerdictIfWhole(f) ==
    IF ctx[f].abort \/ ctx[f].result \in {"write", "partial"} THEN "none"
    ELSE IF ctx[f].result = "timedout" THEN "timedout"
    ELSE "ends"

VerdictOf(f) == IF ctx[f].abort \/ ctx[f].result = "write" THEN "none"
                ELSE IF ctx[f].result = "timedout" THEN "timedout"
                ELSE "ends"

fetch_curl_done(f) ==
    /\ pc = "results" /\ f \in Completed
    /\ cur' = f
    /\ \/ /\ verdict' = VerdictOf(f)
          /\ pc' = "stop"
          /\ UNCHANGED <<queue_ring, fetch_ring, ctx, held, late>>
       \/ /\ HeadersToLookAt(f)
          /\ verdict' = "none"
          /\ \/ /\ \E kind \in {"ends", "moved"} :
                     SendCallback(f, kind, [ctx EXCEPT ![f].had_headers = TRUE])
                /\ pc' = "in_done"
             \/ NobodyToAbort(f)
    /\ UNCHANGED <<inside_curl, scheduled, badHandle>>

HeadersDone == /\ pc = "in_done"
               /\ pc' = "stop"
               /\ UNCHANGED <<queue_ring, fetch_ring, ctx, held, cur, late,
                              unchangedByCurl>>

\* The certificates, if there are any and no header came, are told after
\* the fetch has left the rings; the cache only stores them.
fetch_curl_stop ==
    /\ pc = "stop"
    /\ RemoveFromQueues(cur)
    /\ \/ /\ ~ctx[cur].sent_ssl_chain
          /\ pc' = "in_certs"
          /\ late' = (late \/ ctx[cur].ended)
       \/ pc' = "last" /\ UNCHANGED late
    /\ ctx' = [ctx EXCEPT ![cur].handle = FALSE, ![cur].sent_ssl_chain = TRUE]
    /\ UNCHANGED <<held, cur, unchangedByCurl>>

CertsReturn == /\ pc = "in_certs"
               /\ pc' = "last"
               /\ UNCHANGED <<queue_ring, fetch_ring, ctx, held, cur, late,
                              unchangedByCurl>>

LastMessage ==
    /\ pc = "last" /\ verdict # "none"
    /\ SendCallback(cur, "ends", ctx)
    /\ pc' = "in_last"
    /\ UNCHANGED <<cur, unchangedByCurl>>

\* llcache_fetch_timeout: the object still holds the fetch that timed out.
\* If no other can be started, it aborts that one, which is in no ring.
Retry ==
    /\ pc = "last" /\ verdict = "timedout"
    /\ late' = (late \/ ctx[cur].ended)
    /\ \/ /\ \E f \in Fetches :
               Start(ctx[cur].owner, f, [ctx EXCEPT ![cur].ended = TRUE])
          /\ pc' = "in_last"
       \/ /\ pc' = "crashed"
          /\ UNCHANGED <<queue_ring, fetch_ring, ctx, held, scheduled,
                         badHandle>>
    /\ UNCHANGED <<cur, inside_curl, verdict>>

fetch_free ==
    /\ \/ pc = "last" /\ verdict = "none"
       \/ pc = "in_last"
    /\ ctx' = [ctx EXCEPT ![cur] = Freed]
    /\ cur' = Null /\ verdict' = "none"
    /\ pc' = "results"
    /\ UNCHANGED <<queue_ring, fetch_ring, held, inside_curl, scheduled, late,
                   badHandle>>

\* The end of fetch_curl_poll and of fetcher_poll.
PollReturns == /\ pc = "results" /\ Completed = {}
               /\ inside_curl' = FALSE
               /\ scheduled' = TRUE
               /\ pc' = "idle"
               /\ UNCHANGED <<queue_ring, fetch_ring, ctx, held, cur, verdict,
                              late, badHandle>>

-----------------------------------------------------------------------------
Init == /\ queue_ring = <<>> /\ fetch_ring = {}
        /\ ctx = [f \in Fetches |-> Unborn]
        /\ held = [o \in Objects |-> Null]
        /\ inside_curl = FALSE /\ scheduled = FALSE
        /\ pc = "idle" /\ cur = Null /\ verdict = "none"
        /\ late = FALSE /\ badHandle = FALSE

CacheNext == \E o \in Objects : \/ \E f \in Fetches : fetch_start(o, f)
                                \/ fetch_abort(o)

CurlNext == \/ \E f \in Fetches : \/ fetch_curl_header(f)
                                  \/ fetch_curl_progress(f)
                                  \/ fetch_curl_data(f)
                                  \/ Completes(f)
            \/ PerformFails \/ PerformReturns

CallbackReturns == HeaderReturns \/ DataReturns \/ HeadersDone \/ CertsReturn

DoneNext == \/ \E f \in Fetches : fetch_curl_done(f)
            \/ fetch_curl_stop \/ LastMessage \/ Retry \/ fetch_free
            \/ PollReturns

Next == CacheNext \/ fetcher_poll \/ CurlNext \/ CallbackReturns \/ DoneNext

Spec == Init /\ [][Next]_vars

(***************************************************************************)
(* The scheduler calls fetcher_poll (MainLoop); callbacks and loops end;   *)
(* libcurl ends every transfer, at the latest by the limits on a           *)
(* connection's time and speed that the fetcher sets, and its perform      *)
(* works again after an error.  Nobody is obliged to start a fetch.        *)
(***************************************************************************)
Fairness == /\ WF_vars(fetcher_poll)
            /\ WF_vars(CallbackReturns)
            /\ WF_vars(DoneNext)
            /\ SF_vars(PerformReturns)
            /\ SF_vars(\E f \in Fetches : Completes(f))

FairSpec == Spec /\ Fairness

-----------------------------------------------------------------------------
Contexts ==
    [life : {"unborn", "live", "freed"}, owner : Objects \cup {Null},
     fetch_is_active : BOOLEAN, handle : BOOLEAN, abort : BOOLEAN,
     stopped : BOOLEAN, had_headers : BOOLEAN, sent_ssl_chain : BOOLEAN,
     ended : BOOLEAN,
     result : {"none", "ok", "partial", "write", "error", "timedout"}]

InHand == Callbacks \cup {"stop", "in_certs", "last"}

TypeOK == /\ queue_ring \in Seq(Fetches) /\ fetch_ring \subseteq Fetches
          /\ ctx \in [Fetches -> Contexts]
          /\ held \in [Objects -> Fetches \cup {Null}]
          /\ inside_curl \in BOOLEAN /\ scheduled \in BOOLEAN
          /\ pc \in InHand \cup {"idle", "perform", "results", "crashed"}
          /\ cur \in Fetches \cup {Null}
          /\ verdict \in {"none", "ends", "timedout"}
          /\ late \in BOOLEAN /\ badHandle \in BOOLEAN

\* fetch_curl_done has taken the fetch in hand out of the rings.
TakenOut == IF pc \in {"in_certs", "last", "in_last"} THEN {cur} ELSE {}

Queued == {queue_ring[i] : i \in DOMAIN queue_ring}

(* "Interlock": whatever the cache does in a callback, the fetch that curl *)
(* is working on is still there when the callback returns.                 *)
InHandIsLive == pc \in InHand => cur \in Live

(* An object holds the one fetch that works for it, and no other, until a  *)
(* message has come late.                                                  *)
HeldWhileGoing ==
    ~late /\ pc # "crashed" =>
        \A f \in Fetches : \A o \in Objects :
            held[o] = f <=> f \in Live /\ ~ctx[f].ended /\ ctx[f].owner = o

(* Types; every fetch that is set up is in one ring, the one its flag says *)
(* it is in, and has a curl handle exactly if it was started; the          *)
(* interlock is set while curl works and keeps the fetch in hand; and the  *)
(* cache holds the fetches that are going, and no other.                   *)
FetchInv ==
    /\ TypeOK
    /\ \A i, j \in DOMAIN queue_ring : queue_ring[i] = queue_ring[j] => i = j
    /\ Queued \cap fetch_ring = {}
    /\ pc # "crashed" =>
         /\ Live \ TakenOut = Queued \cup fetch_ring
         /\ \A f \in Live \ TakenOut :
              /\ ctx[f].fetch_is_active <=> f \in fetch_ring
              /\ ctx[f].handle <=> f \in fetch_ring
    /\ pc # "idle" => inside_curl
    /\ InHandIsLive
    /\ HeldWhileGoing

Given == pc \notin Callbacks \cup {"in_certs"} /\ pc' \in Callbacks \cup {"in_certs"}

(* A fetch ends once: by the time it is freed its user has been told of    *)
(* its end, or has aborted it ("the fetcher did not finish"), and after     *)
(* that it is given no message but the certificates of a fetch that never  *)
(* had a header, and what follows from the headers of a partial one.       *)
EndsOnce ==
    [][/\ pc \in {"last", "in_last"} /\ pc' = "results" => ctx[cur].ended
       /\ Given /\ ctx[cur'].ended =>
              \/ pc' = "in_certs"
              \/ pc' = "in_done" /\ ctx[cur'].result = "partial"]_vars

(* Every fetch comes to its end and is freed, however starts are refused   *)
(* inside curl and aborts are deferred, if curl handles stay good.         *)
EveryFetchEnds ==
    \A f \in Fetches :
        ctx[f].life = "live" ~> (ctx[f].life = "freed" \/ badHandle \/ pc = "crashed")
=============================================================================
