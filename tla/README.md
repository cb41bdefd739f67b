# XSR in TLA+

XSR routes plaintext HTTP/1.1 requests to one of five model backends inside the
kernel: an SK_SKB stream parser frames and classifies a request, a verdict
program redirects it to the socket of the chosen backend through a SOCKMAP, and
a userspace program sets connections up and takes them down. These modules model
the parts of it whose correctness depends on the order of things: the pool of
SOCKMAP blocks, the maps that userspace and the programs share, the drain of a
half-closed connection, a request that arrives in pieces, the text that is read
out of its JSON byte by byte, the signals that count along with it, and the
counters by which XSR and the VSR are compared. TLC checks them on
small instances. TLAPS proves for instances of every size the safety of the pool
with its keys and counters, of the drain, of the framing and of both profiles, the
bounds that the signals rely on, that the text they see is the client's prompt,
and that the signals and the route come to what their references say.

    tlc -workers 2 -config pool_two_sets.cfg MCConnectionManager.tla
    tlapm ConnectionManagerProofs.tla

Paths below are relative to the repository's root.

## The system

| Component | State | Operations |
| --- | --- | --- |
| Connection manager, `src/sk_router.c` | `struct connection_manager`: sets, free list, counters, quarantine | `add_connection_set`, `reap_connection_set`, `destroy_connection_manager`, the epoll loop |
| Half-close lifecycle, `src/sk_router.c` | per set: `peer_write_closed`, `backend_writes_shutdown`, `drain_confirmed`, `initial_backend_bytes_received` | `poll_connection_lifecycle` every 100 ms |
| BPF programs, `bpf/programs/sk_router.bpf.c` | maps `sk_sock_map`, `sk_routes`, `sk_lifecycle`, `sk_http_flows` (LRU), `sk_route_decisions` | `sk_router_parser`, `sk_router_verdict` |
| HTTP framing and JSON content, same file | `struct sk_http_flow_state` | `scan_headers_callback`, `scan_content_callback` |
| Signals, `bpf/stages/signals/` | `struct xdp_classifier_state` | n-grams (Jaccard), BM25 and the distilled model, one byte at a time; the route they lead to |
| Policy decision, `bpf/stages/policy/decision.bpf.h` | rule array | first matching rule of sixteen |
| Distilled model loader, `src/distill_model_loader.c` | weights map | validation and upload of a model |
| Status socket, `src/sk_router.c` | none | `serve_status`: counters and map sizes; `profile` commands |
| Component profile, `scripts/sk_profile_components.py` | per-CPU counters of the verdict | `profile reset`, `profile read`, the checks of the tool |
| VSR component profile, `scripts/vsr_profile_components.py` and `profiling/vsr/patches/` | timers of the VSR | observation, collection, two captures and their difference |
| Mock backend, `benchmarks/mock_backend.c` | listening socket, `running` | 512 workers: accept, answer, close |
| Latency client, `benchmarks/python_latency/` | a queue and a busy flag per connection | open-loop schedule over persistent connections |
| Harnesses, generators, reports, `benchmarks/`, `scripts/` | files | start processes, compare, format |
| XDP HTTP parser, `bpf/stages/parsing/` | none | of an earlier datapath, unused by the router |

How they interact:

- **Calls.** One userspace thread runs the listener, the timer and the status
  socket from one epoll loop; a handler runs to its end before the next one.
- **Shared state.** The thread and the programs meet in the BPF maps. A map
  operation is atomic, a handler is not: programs run between any two system
  calls of `add_connection_set` and `reap_connection_set`.
- **Callbacks.** The kernel calls the parser and the verdict when data arrives on
  a socket of the SOCKMAP, under that socket's lock; on two sockets they run
  concurrently. A redirect only queues data on the target's backlog, which a
  kernel worker sends later.
- **Identity.** A SOCKMAP slot is reused by later connections. A socket cookie
  never is. The routes and the lifecycle state are keyed by cookie and hold slot
  numbers, so the pool must not recycle a block while one of them names it.

What is hard about it: a reap under running programs; a setup or reap that fails
half way and must lose neither a block nor a key; the signal at any moment; the
window of a setup in which the client already sends; bytes counted by the
programs compared with bytes counted by TCP, read at different moments; a drain
that must not cut off a response and must not wait for ever; surrogate halves,
connectors and trigrams that mean something only together with what comes later;
tables found by hash and counts packed into six bits; snapshots of counters that
nothing locks. `PROJECT.json`
lists each of these at its line ("hazards") with the properties for it.

## Modules

| Module | Models | Used by |
| --- | --- | --- |
| `SlotPool` | abstract: what the pool of blocks promises | `ConnectionManager` (refinement) |
| `ConnectionManager` | setup, reap, retry, quarantine, shutdown; the map accesses of the programs | `MCConnectionManager`, proofs |
| `ConnectionManagerProofs` | theorems about `ConnectionManager` | |
| `Connection`, `ConnectionProofs` | one connection: end of setup, requests, responses, half-close drain | `MCConnection` |
| `HttpFraming`, `HttpFramingProofs` | the header scan over segments, and where the backend ends a request | `MCHttpFraming` |
| `Utf8` | UTF-8 as the parser writes and the n-gram signal reads it | `JsonContent` |
| `JsonContent`, `JsonContentProofs` | the content scan: key, escapes, surrogates | `MCJsonContent` |
| `Bm25` | the BM25 signal | `Classifier` |
| `Bm25Reference` | its reference in Python | `ClassifierReference` |
| `Jaccard` | the n-gram signal (operators on its state) | `Classifier` |
| `Distill` | the distilled model and its loader (likewise) | `Classifier` |
| `Classifier`, `ClassifierProofs` | the three signals over one text, the policy, the decision rules, the verdict | `MCClassifier` |
| `ClassifierReference` | the references of the n-grams, the model and the route | `MCClassifier` |
| `SkProfile`, `SkProfileProofs` | profile counters, status commands, the tool of a measurement | `MCSkProfile` |
| `VsrProfile`, `VsrProfileProofs` | timers, collector and captures of the VSR's profile | `MCVsrProfile` |
| `Totals` | lemmas: induction, sums over finite sets, folds over sequences | the proofs |
| `MC...` | instances for TLC | the runs |

`ConnectionManager` and `Connection` are two views of the same code.
`ConnectionManager` has many connections and says of each only which keys and
sockets it has; its `LifecycleReap` may reap any active set at any time.
`Connection` has one connection and says when the timer reaps it and why; there
the reap is one step, because its steps and failures are in the other module.
Whatever holds of `ConnectionManager` therefore holds for every policy of the
timer, that of `Connection` among them.

### ConnectionManager

`pc` is where the thread stands. One action is one system call of the handler,
with its outcome, together with the assignments up to the next call.

| Actions | Code |
| --- | --- |
| `Accept`, `ConnectBackend`, `GetCookies`, `InstallLifecycle`, `InstallRoute`, `InstallSlot`, `Activate` | `add_connection_set`, in its order; `SetupFails` is `goto fail` |
| `ReapSlot`, `ReapRoute`, `ReapFlow`, `ReapLifecycle`, `ReapDecision`, `ReapClose` | first pass of `reap_connection_set` |
| `RetrySlot`, `RetryRoute`, `RetryFlow`, `RetryDecision`, `RetryLifecycle` | the pass after `close()` when a deletion failed |
| `Quarantine`, `Recycle` | its end |
| `LifecycleReap`, `Signal`, `LeaveLoop`, `DestroyReap`, `DestroySkip` | its callers, the signal, the shutdown loop |
| `StartRun`, `Parse`, `Decide`, `LookupRoute`, `Forget`, `Redirect` | one run of the parser and the verdict on one socket |

Flags of a set are sets of sets (`active`), flags per member are sets of pairs
(`sockmap_installed`). A socket is a pair of connection and member, and is its
own cookie; `http_flows` and `route_decisions` are keyed by it. `FallibleCalls` says
which steps' calls may fail. A parser run says of a request only whether it was
complete; a run on the client redirects to any backend, since every backend is some
request's target. A backend's data is passed on as it comes while its route is there
(`PassedBy`); once that is deleted the parser takes it for a request, and the verdict
finds no route and drops it.

Assumed of the kernel: a map operation is atomic; deleting a slot stops new runs
but not one in progress; `close()` waits for the run on its own socket (socket
lock) and unlinks the socket from the SOCKMAP; a cookie is given once. Listener
errors, `epoll_wait` errors and the status socket change no modelled state.

### Connection

| Actions | Code |
| --- | --- |
| `InstallSlot`, `Peek` | the slots, the client's first, then `recv(MSG_PEEK)` |
| `Parse`, `Verdict`, `RedirectResponse` | the programs and the lifecycle flags and counters they keep |
| `PollClient`, `PollInfo`, `PollLifecycle`, `PollShutdown`, `PollBackends`, `PollReceived` | `poll_connection_lifecycle`, one call per step |
| `Send`, `CloseWrite`, `Vanish`, `Ack` | the client and its TCP (external) |
| `BacklogToBackend`, `BacklogToClient` | the kernel's backlog workers (external) |
| `Reply`, `BackendCloses` | a backend, as `benchmarks/mock_backend.c` does |

Data is counted in units instead of bytes. All requests are well formed; a
request that is not is to this module one that never becomes complete. The
client does not pipeline, and no backend speaks before it is asked.
`tcpi_bytes_received` counts a FIN as one unit, and a reset as none; the kernel
reports POLLRDHUP for both.

### HttpFraming

| Definitions | Code |
| --- | --- |
| `Deliver` | a segment of the client's stream, of any size (external) |
| `Parse`, with `Scan`, `Complete`, `NeedMore`, `PassOn` | `sk_router_parser` on the bytes since the last request, and the deletion of the flow in `sk_router_verdict` |
| `ScanByte`, with `HeaderMatch`, `ReadLength`, `MayGrow` | `scan_headers_callback`, folded over the bytes |
| `ParseFails` | the early returns when the scratch element or the flow is not found |
| `Evict` | the LRU map drops the flow, at any time |
| `RequestLen`, with `HeaderLen`, `LengthLines`, `NumberAt` | the framing of `worker_thread` in `benchmarks/mock_backend.c` |

Bytes are tokens: CR, LF, blank, two digits, one other byte, and `key` for the
fifteen bytes of the header name. `RequestLen` searches the whole request, the
parser looks at each byte once and remembers the rest in the flow; the runs
compare the two. The parser finds the name anywhere in a line and reads all digits
up to the end of it, the backend only looks at the start of a line and stops at the
first byte that is no digit. The backend's `strtoull` skips any white space before the number, the
ends of lines included. They agree when a header has the name at most once, at the
start of a line, before a number of at least one digit with nothing but blanks around
it: `Plain`. The name is one token, so a segment that ends inside it, for which the
flow keeps `prefix_pos`, is not covered.
All streams of the run are so, and the theorem has it as a hypothesis
(`HeadersArePlain`). Where the header ends they agree on any bytes.
`Connection` takes from here that a request is complete or not; the lifecycle flag
it polls is `incomplete`.

### Utf8 and JsonContent

| Definitions | Code |
| --- | --- |
| `KeyByte`, `WaitingByte` | `scan_content_callback` before the content: the key, then the quote |
| `PlainByte`, `BeginEscape`, `EndOfContent`, `EndOfBody` | its end: text, backslash, the closing quote, no more bytes |
| `EscapedByte`, `BadHex`, `HexDigit`, `LastHexDigit`, with `Decoded` | escapes, digit by digit, and what is done with surrogates |
| `ScoreCodepoint` | `sk_score_codepoint` |
| `ReadByte`, `ReadEnd` | `xdp_jaccard_score_char`, and the incomplete character in `xdp_jaccard_finish` |

A body comes with the prompt that its client encoded and the places `at` which its
characters begin. `Encodes` says what that means, for bodies of any length: each
character is there in one of the forms that JSON has for it (`StandsFor`), its UTF-8,
a short escape, `\uXXXX` or two of those; the content is the first string whose key is
`"content":`; and the key stands where a member begins. `ContentAssumption` has it of
every body of `Bodies` that is JSON, and TLC evaluates it on those of the run.
`PromptIsScored` compares the prompt with what comes out at the far end of the
signals' UTF-8; of bodies that are no JSON only `ScoredWithinRead` and the types
say something. A key that contains a quote (`a\"content":`) is taken for
the content, and `"content" :` with a blank is not: no client here writes them.

### Classifier, with Bm25, Jaccard and Distill

| Definitions | Code |
| --- | --- |
| `Classify` = `ScoreChar` + `JaccardScore` + `DistillScore` | `xdp_classifier_score_char` |
| `WordByte`, `ConnectorByte`, `OtherByte`, `CountWord`, `Exact` | `xdp_bm25_score_char`, `xdp_bm25_finish_word`, `xdp_bm25_token_matches` |
| `Push`, `AddGram`, `Close`, `MatchQuery`, `Similar` | `xdp_jaccard_push`, `_add_gram`, `_finish_word`, `_match_query` |
| `GramMask` | `populate_jaccard_policy` |
| `Loads`, `DistillScore`, `Intent` | `populate_distill_model`, `xdp_distill_score_char`, `xdp_distill_intent` |
| `Decide`, with `RoutePriority`, `Prefer` | `xdp_classifier_finish`, `xdp_classifier_route`, the two `_route_priority` |
| `DecisionRules`, `DecisionEval`, `Verdict` | `populate_decision_rules`, `xdp_decision_eval`, `sk_router_verdict` |
| `TokenizeQuery`, `FixedScores` | `vsr_bm25_tokenizer.py`, `bm25_reference.py` |
| `ReferenceKeywords`, `IntegerScore`, `ReferenceIntent`, `ExpectedRoutes` | `jaccard_reference.py`, `core.py`, `expected_route` |

The signals see a text byte by byte and keep little of it; the references have it
whole. `RegularAgrees`, `JaccardAgrees` and `RouteIsExpected` compare the two at
the end of every text. Bytes are those after case folding, and ASCII, so that
they are characters too. A word of one character is counted with two trigrams
and has three in the reference (see Disagreements): `CountedKeywords` are the
keywords with the code's count, `ReferenceKeywords` with that of the reference, and
the route is compared where the two sets are equal. Trigrams that were seen are kept
in order; the code counts them in an LRU map under a random token, and packs the
intersections of eight keywords into a word of six bits each. The evictions, which begin
a count again, and the packing are left out.

Two things the references do not have are taken from the program: the limits on a
word and on the text (`MaxGrams`, `MaxTextGrams` in `Candidates`), beyond which
nothing is compared, and that the intent goes before the rules (`ExpectedRoutes`). Of
rules that match with the same priority any may decide, see Disagreements. And
`Regular` is narrower than it need be: it leaves out a final full stop after a word,
on which code and reference agree.

### SkProfile and VsrProfile

In `SkProfile` one run of the verdict per CPU adds to its six words by a load and
a store each (`LoadWord`, `StoreWord`); the router copies or clears them cell by
cell (`ReadCell`, `ResetCell`); the tool sends commands, gives up, is answered late
or not at all. `load` and `before` remember what really was recorded. In
`VsrProfile` requests observe their stages in turn (`AddDuration`, `AddCount`), a
scrape loads count and duration (`Sample`), the tool captures twice and subtracts
(`Summarize`), and `Restart` begins the counters again.

## Runs

| Run | Instance | Shows |
| --- | --- | --- |
| `pool_two_sets` | 2 blocks, 2 clients, some calls may fail | `NoCrossTalk`; `LoopIsSettled`: between two events no set is half set up; `ImplementsPool` |
| `pool_recycling` | 1 block, 2 clients, every call may fail, fairness | `TypeOK`, `PoolPartition`, `FreeSetsAreClean`, `KeysAreOwned`, `CountersAgree`, `QuarantineIsForever`, `ShutdownCompletes` |
| `half_close` | three conditions: any timing with resets and failing calls, without these, and with a worker faster than the timer; fairness | `TypeOK`, `IncompleteIsIncomplete`, `DrainedMeansForwarded`, `DrainedMeansDelivered`, `HalfClosedIsReaped`, `CompleteRequestIsHandled` |
| `framing` | two requests, any segments, evictions, failing map calls | `TypeOK`, `RouterAndBackendAgree`, `ScanIsResumable`, `HeaderEndsAgree`, `LeftoverIsReported`, `NoCompleteRequestWaits` |
| `content` | prompts of up to three characters, members before them, bad escapes | `TypeOK`, `PromptIsScored`, `ScoredWithinRead` |
| `classifier` | every text of up to five bytes, two policies, with a model and without | `TypeOK`, `NoOverflow`, `RegularAgrees`, `JaccardAgrees`, `RouteIsExpected`, `ScoresStayInBound` |
| `profile` | two CPUs, readings during a load, every failure | `TypeOK`, `ReadIsBracketed` |
| `vsr` | two requests at a time, three in all, one restart | `TypeOK`, `SummaryIsExact`, `ExpectedIsExact`, `AcceptedMeansAllStages`, `SnapshotCoversCounts` |
| `stale_keys` | 1 block, 1 client, no failures | violation of `RecycledMeansGone` |
| `setup_race` | 1 request of two segments | violation of `EarlyRequestSurvives` |
| `reset_counted` | a backend that resets | violation of `FinsWereCounted` |
| `letter` | a keyword of one letter, threshold 1.0 | violation of `ExactKeywordMatches` |

**Bounds.** `MAX_CONNECTION_SETS` is 2730 in the code: two blocks are enough for
one connection to meet the block of another, one block to make clients compete
for the same one. `SOCKS_PER_CONNECTION` is 6: one client and one backend suffice
where no property tells backends apart. `MaxAccepts` bounds the clients; of two
on one block the second gets it recycled, after failures perhaps, or is turned away. In `Connection` two backends tell
the one that answers from the one that does not, two requests give a kept-alive
connection, two units give a request that arrives in parts. A response is one unit,
so that the second of a connection is what is still missing when the first was
forwarded. What may happen to a connection (`prompt`, `resets`, `failures`) is a
variable, `conditions`, that is drawn at the start and stays: one run has all of
them, and each property names the conditions it needs. The
theorems lift these bounds: they hold for every value of the constants. In
`HttpFraming` numbers have base two, and `MaxHeader` is 12 for 2000, `MaxRequest` 14
for the limit of a stream request: headers of up to two lines with lengths from one
to four digits fall on both sides of either limit and of the guard `MayGrow`. The
request of interest comes before or after a plain one, so that what a flow leaves
behind is seen.

`content` has the code points at which UTF-8 and escapes change form, both ends of
both ranges of surrogates, every short escape, and all pairs of these; three in a
row for ten of them, since what is kept over a character is one surrogate. In
`classifier` a token is three bytes for 64 (`MaxTokenBytes`), a word or a text six
trigrams for 32 and 128, the model sees four bytes for 16384 and has three classes
for fourteen; texts of five bytes pass each limit and stay below it, and three
words in five bytes reach the limit of words. Most words share a hash. Scores of
the model reach their bound, and a second file has a bound that is not its own.
`SkProfile` takes two CPUs because what is copied late from one may be copied early
from the other; `VsrProfile` three requests because two can compensate each other.

**Deadlock** is checked in every run but `classifier`, where a request ends with its
verdict. `Done`, `Reaped`, `AllSent` and `Ended` stutter where the program, the
connection, the stream or the measurement has come to its end.

**Fairness.** `ConnectionManager`: a handler that has started runs on, since the
thread waits for nothing but a socket lock; `close()` gets the lock though runs
of the programs take it again and again (strong fairness: the kernel queues the
waiters); a run of the programs ends, since BPF programs do. The loop itself is
only fair in leaving once the signal has arrived: no client has to connect.
`Connection`: the timer goes on firing, the kernel runs the callbacks and workers
it has queued, a client that is there acknowledges, a backend answers what it got
and closes a connection whose input has ended (`worker_thread` does, `read`
returning 0). Nothing makes the client send, finish a request, or half-close.

### Disagreements with the repository's text

- `stale_keys`. The comment at `src/sk_router.c:539` never recycles a block
  "unless every old key is confirmed gone", and
  `benchmarks/routing_wrk/wait_for_xsr_quiescence.py:66` waits for empty flow and
  decision maps. The deletions before `close()` are not repeated when they
  succeeded, and a run of the parser that is still going on inserts its keys
  after them. The route decision and flow of that cookie stay in the maps. A run on
  a backend's socket whose route is deleted before the parser looks at it takes the
  data for a request, and leaves its keys under the backend's cookie, which no
  deletion names.
- `setup_race`. The comment at `src/sk_router.c:690` expects a request that is
  sent during the setup to be served. One whose last segment arrives between the
  installation of the client's slot and of its target's is redirected to an empty
  slot and dropped; the peek that follows finds nothing.
- `reset_counted`. The comment at `src/sk_router.c:995` explains why one byte is
  taken off for each FIN. The count is of POLLRDHUP, which a reset raises without
  a byte. With a reset and no response `received` stays too small and the
  half-closed connection is not drained until its client goes away.
- `letter`. `benchmarks/policy/test_jaccard_policy.py:37` has `"a"` match `"a"` at
  a threshold of 1.0, and the test at lines 40-46 gives it three trigrams, as the
  generator does.
  `xdp_jaccard_finish_word` and `xdp_jaccard_finish` leave out the middle one for a
  single character: the similarity of an equal keyword is 8/9, and it does not match
  above 0.888. It changes a route only when a rule has such a keyword and threshold.

Two limits of the drain contradict no text and are named in the properties:
`DrainedMeansDelivered` is for `PromptBacklog`, because the two confirming polls
can be arbitrarily close when the event loop was stalled; and
`DrainedMeansForwarded` is for backends that do not reset, because of the byte
above.

Further differences that no text of the repository rules on. The model has each,
and the property that meets it leaves it out by name or admits both outcomes:

- BM25 and its reference cut `1.1a` and `a'b_c` differently: the program
  decides one byte ahead, the regular expression tries alternatives. `Regular`
  texts have connectors of one kind in a word and dots between digits only.
- Halves of a surrogate pair that are apart are put together when no other
  `\u` escape comes between (form `"other"` of `JsonContent`).
- Of two rules of one method with equal priorities the program takes the last and
  `expected_route` the first, since the generator's sort is stable
  (`benchmarks/policy/generate_keyword_header.py:244`). The generator refuses equal
  priorities only across methods, and a rule that has none given has 0.
  `RouteIsExpected` accepts the route of either; the run has such a policy.
- `populate_distill_model` accepts a weight of -128, for which the bound is too
  small by one per trigram; `quantize_global` writes none (`DistillAssumption`).
- A client of the status socket that has gone raises SIGPIPE in the router, which
  nothing handles: `RouterGone`.
- A `profile reset` during a load may be undone by a verdict that had loaded the
  old count (`Disturbed = {"reset"}`); the benchmark resets between loads.
- Without `--expected-completed` a restart of the VSR shows only when a counter
  became smaller; with it, failures that differ before and after a restart might
  still compensate, which `ExpectedIsExact` leaves out.

## Proofs

Every theorem holds for all values of the constants that the named assumption of
the module admits; further hypotheses are in its statement and in the last column
of a table. An invariant that is not inductive is strengthened, in the model's own
module or, for the content and the signals, next to the proofs; the strengthening is
proved with one lemma per action or per conjunct.

### ConnectionManager

From `PoolAssumption`: at least one block, at least two sockets per connection,
any number of clients, any `FallibleCalls`.

| Theorem | States |
| --- | --- |
| `Invariance` | `Spec => []IInv` |
| `TypeCorrect` | `Spec => []TypeOK` |
| `PoolCorrect` | `Spec => []PoolPartition` |
| `NoCrossTalkCorrect` | `Spec => []NoCrossTalk` |
| `QuarantineCorrect` | `Spec => QuarantineIsForever` |
| `PoolImplemented` | `Spec => ImplementsPool`: the refinement of `SlotPool` |
| `KeysInvariance` | `Spec => [](IInv /\ KeysInv)` |
| `FreeSetsClean`, `KeysOwned` | `Spec => []FreeSetsAreClean`, `Spec => []KeysAreOwned` |
| `CountersCorrect`, `LoopSettled` | `Spec => []CountersAgree`, `Spec => []LoopIsSettled` |

`NoCrossTalk` is not inductive: a run that holds a route entry is harmless only
as long as the entry's block still belongs to the run's connection. `IInv` adds
why it does:

- `RunsAreOwned`: a run goes on only on an open socket, and its entry names the
  set that holds its own connection. It is kept by `ReapClose`, which waits for
  the run, and needs that a set has closed all its sockets when it is recycled:
- `CurProgress`: how far the thread has come in a setup or reap, read off `pc`
  and `member` (`SlotsDone`, `RoutesDone`, `ClosesDone`): slots, routes and
  descriptors before that member are dealt with, unless a deletion failed;
- `CurIsHeld`: the set the thread works on is allocated and not active;
- `SlotsAreOwned`, `RoutesAreOwned`: slots hold open sockets of the set that owns
  the slot, route entries name the set of their own connection;
- `ClientsAreHeld`: a connection is held by one set, a free set is empty;
- `CountersCount` and `PoolPartition` with `TypeOK`: what the counters count, so
  that they stay natural numbers, and what keeps `free_count` in its array.

`KeysInv` is what holds on top of it. A deletion that fails leaves a key behind,
and nothing in the code says which; `LifecycleIsOwned` finds it again through the
flag of its set, and only a set without flags is recycled. `FdsAreAllocated` says
that a quarantined set has closed its sockets, `AllocatedIsActive` that the thread
holds one set at most besides the active ones, `ActiveIsServed` with
`SetupProgress` that a set becomes active with everything installed, and
`AcceptedAreAccounted` where each connection is counted in the middle of a reap.

Each conjunct has a lemma, `...Step`, with one step per action that can disturb
it. Arithmetic of slots (`BlocksAreOrdered`, `SlotInjective`), cardinalities
(`AddOne`, `RemoveOne`) and the free list as a stack (`PopFreeSet`,
`PushFreeSet`, `FreeListHasRoom`) are lemmas of their own. `PoolRefinement` maps
the end of a reap to `Release` or `Retire` and an accept to `Take` or `TurnAway`;
everything else stutters.

### Connection

| Theorem of `ConnectionProofs` | States | Besides `ConnectionAssumption` |
| --- | --- | --- |
| `ResponseInvariance`, `ConnectionTypes` | `Spec => []ResponseInv`, `Spec => []TypeOK` | |
| `IncompleteRequests` | `Spec => []IncompleteIsIncomplete` | |
| `DrainForwarded` | `Spec => []DrainedMeansForwarded` | |
| `DrainDelivered` | `Spec => []DrainedMeansDelivered` | |

The theorems of the drain are about responses. The poll compares numbers that are
read at three moments: TCP_INFO of the client, the lifecycle state, TCP_INFO of each
backend.
`ForwardedIsCounted` follows every unit of a response that has reached a backend's
socket through the queues: what has left the backends' receive queues
is `response_bytes_forwarded`, and until the client is gone that is what is
acknowledged, in flight or on the backlog. Requests are only bounded from above:
`AskedOncePerRequest` says that no more is asked of the backends than was
requested, which bounds what can still come. It may be less: a request is dropped
whose slot is empty, and lost when its backend has been shut down, and no theorem says
that a request is answered.

`ReadingsHold` says what survives from a reading to its use: the client sends no more,
the counter only grows, and a backend that has ended stays so; equality with the older snapshot therefore means equality now. For delivery
the first drained poll is not enough, since a redirect only queues its data.
`ConfirmedIsQuiet` says that from then on nothing is redirected any more, and
that what is on the backlog was there at the end of that poll (`old`), so that
the next TCP_INFO sees it. The two conditions in `DrainedMeansDelivered` are the limits
of the drain named under Disagreements; without them TLC has counterexamples.

### HttpFraming

For streams of any bytes, segments of any size, any evictions, and any
`MaxHeader` and `MaxRequest`:

| Theorem of `HttpFramingProofs` | States |
| --- | --- |
| `FramingInvariance`, `FramingTypes` | `Spec => []FramingInv`, `Spec => []TypeOK` |
| `ScanResumes`, `LeftoverReported` | `Spec => []ScanIsResumable`, `Spec => []LeftoverIsReported` |
| `HeaderEndsAgreeCorrect` | `Spec => []HeaderEndsAgree` |
| `RouterAgrees` | `Spec => [](HeadersArePlain => RouterAndBackendAgree)` |
| `NoCompleteRequestStuck` | `Spec => [](Plain(Rest(consumed, arrived)) => NoCompleteRequestWaits)` |

`FramingInv` is small: the flow is one uninterrupted scan of the bytes it counts,
a scan at rest went as far as it could (`ScanIsExhausted`), and the requests
passed on follow one another (`FramesFollow`, which asks of each request only that
its own header is plain). The work is in what a scan of given bytes comes to. A
fold is the last entry of a trace with one entry per byte (`IsTrace`; `Totals`
shows that it exists), and facts about the trace go by induction over its index.
`header_match` is the longest start of an empty line that the bytes end with
(`Matched`), though it is kept by comparing one byte at a time; so both sides find
the same first empty line. After the digits of a number `v` a scan has `v`, or has
marked the request invalid and `v` is larger than `MaxRequest` (`Knows`): the
overflow guard refuses nothing that would have been accepted.

`Plain` is a property of the client's bytes. A client that writes the name twice,
inside a value, or before something that is no number is framed differently by the
two, as the section on `HttpFraming` above says; nothing in the repository sends
such a header.

### VsrProfile and SkProfile

| Theorem | States | Besides the assumption of the module |
| --- | --- | --- |
| `CoverInvariance`, `VsrTypes` | `Spec => []CoverInv`, `Spec => []TypeOK` | |
| `SnapshotCovers` | `Spec => []SnapshotCoversCounts` | |
| `SummaryInvariance` | `Spec => []SummaryInv` | `"before" \in Settled` |
| `SummaryExact`, `ExpectedExact` | `Spec => []SummaryIsExact`, `Spec => []ExpectedIsExact` | the same |
| `AllStagesAccepted` | `Spec => []AcceptedMeansAllStages` | the same |
| `ProfileTypes` | `Spec => []TypeOK` of `SkProfile` | |
| `ProfileInvariance`, `ReadBracketed` | `Spec => []ProfileInv`, `Spec => []ReadIsBracketed` | `"reset" \notin Disturbed` |

In `VsrProfile` a request adds its duration before its count and a scrape loads
the count first; `DurationsCoverCounts` takes the half-made observations into
account, `ScrapeCoversCounts` the stage between whose loads the scrape stands.
For the exact difference `SummaryInv` follows `Due`: what the counters come to
once the requests under way have reached the ends of their paths. A request adds
to it all at once when it begins, and its single observations leave it alone, so
that `LoadIsDue` holds through every interleaving; a count that is all that is due
leaves no duration out (`Exact`), which is what a complete capture is recognised
by. After a restart `Due` and `Answers` are compared instead, from zero. The
hypothesis is about who takes the captures, which nothing in the repository does:
that nothing is under way at the first one. Without it the rest of a warm-up
request is counted in the difference. The second may begin when all requests are
answered, which need not be when they are all observed.

In `SkProfile` the copy is taken word by word while runs store into the words.
`LoadIsRecorded` says that counters and what the runs still owe (`Owed`) are the
load; `ReadingIsBracketed` completes the half-made copy with the counters as they
are now (`Reading`): that is at least what was complete when the reading was asked
for, at most what the counters have, and no step of a run or of the copy breaks
either. `Doomed` sets aside the router that a late answer will end. The hypothesis
is the order of `benchmarks/routing_wrk/benchmark.sh`, which waits for quiescence
after the warm-up before it resets; the effect of a reset in the middle of a load
is under Disagreements.

### The signals and the parser that feeds them

| Theorem | States | From |
| --- | --- | --- |
| `ScoredWithinReadCorrect` (`JsonContentProofs`) | `Spec => []ScoredWithinRead` | `ContentAssumption`, for any set of bodies |
| `ContentTypes` (`JsonContentProofs`) | `Spec => []TypeOK` | the same |
| `PromptIsScoredCorrect` (`JsonContentProofs`) | `Spec => []PromptIsScored` | the same |
| `Bm25TypeCorrect`, `Bm25NeverOverflows` (`ClassifierProofs`) | `Spec => []TypeOK`, `Spec => []NoOverflow` of `Bm25` | `Bm25Assumption` |
| `ClassifierRunsBm25`, `ClassifierNeverOverflows` (`ClassifierProofs`) | `ClassifierSpec => Spec` of `Bm25`, and so `[]NoOverflow` | the same |
| `ScoresStayInBoundCorrect` (`ClassifierProofs`) | `ClassifierSpec => []ScoresStayInBound` | `DistillAssumption`, `PolicyAssumption` |
| `RegularAgreesCorrect`, `ClassifierAgreesOnRegular` (`ClassifierProofs`) | `Spec => []RegularAgrees` of `Bm25`, and `ClassifierSpec => []RegularAgrees` | `Bm25Assumption` |
| `JaccardAgreesCorrect` (`ClassifierProofs`) | `ClassifierSpec => []JaccardAgrees` | `JaccardAssumption` |
| `RouteIsExpectedCorrect` (`ClassifierProofs`) | `ClassifierSpec => []RouteIsExpected` | all of them |

The bounds form one argument. A parser scores no more bytes than it reads: an escape of
six bytes gives at most three, a pair of twelve at most four, and a blank that was
put off for a kept surrogate is paid for by the six bytes of its escape. The
invariant therefore carries what an open escape and a kept surrogate have in
reserve. What is scored are bytes, and what the n-gram signal reads from them are
code points (`ContentTypes`): four digits and the two halves of a pair stay below
1114112, and so does whatever a byte sequence cut off by a bad escape is read as.
A word takes two bytes with the one that ends it, but for the last:
`query_tokens` and the open word together stay within half of the bytes and one,
so that the limit is never met and no BM25 score passes it times the greatest
weight. A score of the model is within `score_bound` less what the bytes to come
may still add (`Margin`), so that the sum does not wrap in 32 bits.

`PromptIsScoredCorrect` follows a prompt through four codings: the client's escapes,
the parser's digits and halves, its UTF-8, and the bits that the n-gram signal has of a
character. `PromptInv` says where in the prompt the parser stands:

- Before the content: the last bytes are as much of the key as was found (`KeySeen`),
  and a key that the content has is not missed (`KeyFollowed`). After a byte
  that does not fit the search begins again with that byte, a quote or not; a quote that
  fits goes on with the old key, which is right because it is the ninth byte, after a
  letter, and no member begins after a letter.
- In it, with `i - 1` characters done and `k` bytes of the next read (`Within`): the
  signals were told those characters (`Told`), and what is kept is what `k` bytes of
  its form leave behind (`InCharacter`), the value of the digits so far (`InEscape`),
  the first half of a pair, or the bits of a character as UTF-8 (`Reading`).
- A surrogate that is kept between characters was a lone one (`KeptWasAlone`). Then
  the text is not Unicode, so a blank may come late, and it has no low surrogate, so
  that the next escape does not make a pair of two strangers: the hypothesis of form
  `"json"`, without which the two are put together (Disagreements).

Each form of a character has a lemma for its bytes (`RawStep`, `ShortStep`,
`EscapedStep`, `HighStep`, `LowStep`), and `CharacterIsRead` shows that the reader
undoes `ScoreCodepoint` for everything but surrogates. What is left of a text without
blanks and surrogates is a recursive function, unfolded by `WithoutOneMore`.

The last three rows compare a stream with a computation over the whole text. Each has
an invariant that says of a prefix what the reference will find in it:

- `RegularInv`. A word is told by its first and last places (`Tokens`): from a byte
  that begins one to the last before a byte that neither belongs to it nor links it
  to the next. The stream's `word` is the open one (`OpenToken`), with the connector
  it has not decided on in `pending_connector`, and the scores are the sums over the
  words that are over (`SumsAre`). On a regular text a place of the set is a match of
  the regular expression, whose longest alternative ends there too. The reference
  walks from match to match; that it visits these places and no others goes by
  induction from the right end (`DescentExists`), since it recurses to the right.
  A term that was found by its hash is compared with the bytes that were kept; that
  a word of more than `MaxTokenBytes` equals no term is in `Bm25Assumption`.
- `JaccardInv`. A query that has seen some characters holds their trigrams in order
  and, for each keyword, the number of those that were its own, each occurrence up
  to as many as the keyword has (`Follows`). Summed up trigram by trigram this is the
  smaller of the two multiplicities, the intersection of the multisets (`Common`).
  The words of a prefix are those that are over (`EndedWords`) and the open one.
- `ScoreInv`. A score is the bias and the weights of the trigrams among the first
  `PromptBytes` bytes; the two bytes that are kept are the last two of the text.
  That a score of 32 bits is the sum itself follows from the bound.

`RouteInv` ties the route to the signals at the moment of the decision. Then
`RouteIsExpected` is a matter of priorities: the loop that takes a rule which is at
least as high as the best so far ends at one of the greatest, and between the methods
`Prefer` takes the higher. So the rule that decides is among `BestMatches`, as is the
reference's; they are one rule where no two of the greatest are equal. Nothing is
assumed of priorities.

### Induction

The library's induction theorems take the claim as an operator, which the provers
cannot instantiate. `Totals` does induction over sets instead: the set of the
numbers, or of the subsets, for which a claim holds (`NumberInduction`,
`SubsetInduction`). From it come the sums over a finite set, which are recursive
in the community modules (`TotalUpdate`, `TotalMonotone`, `TotalOfSum`,
`TotalOneMore`), the trace of a `FoldLeft` (`FoldExists`), functions that recurse
upwards and downwards (`AscentExists`, `DescentExists`) and the greatest of a bounded
set of numbers
(`GreatestOf`).

### Only model-checked

- `ShutdownCompletes`, `HalfClosedIsReaped`, `CompleteRequestIsHandled`: liveness
  under fairness, which needs ENABLED and is outside TLAPS's reach here.
  Every invariant and every action property of the passing runs is a theorem.
  `ShutdownCompletes` is checked on one block, where every call may fail.
- The two limits under Disagreements and the four violations, which are
  counterexamples of one instance each.

## Not modelled

- The XDP parser, which belongs to an earlier datapath and is called by nothing in
  the router; generated tables, which are data.
- Case folding (`xdp_bm25_lower`, `xdp_jaccard_lower`) and the Unicode word
  table: the signals' models begin behind them. Stemming is in the generated table.
- Evictions from the LRU map of trigram counts, and the packing of the counts.
- The rest of `serve_status`, which prints counters and map sizes and changes
  nothing; that it reads them one after the other, and so what a benchmark concludes
  from them, is not modelled. `stale_keys` is about one moment.
- The threads of the mock backend, which share only a listening socket; its framing
  is in `HttpFraming` and its part in a connection in `Connection`.
- The latency client, a load generator whose coroutines never decide where a request
  goes; harnesses, reports, training and the generators, which run offline. What the
  generators make sure of is in the named assumptions.
- `XSR_FORWARDING_ONLY` is the instance with one backend whose parser always
  completes.

## Plan

Done: the pool with its proofs and refinement, the connection and its drain, the
framing, the content, the signals and the route, the two component profiles, and
proofs of every safety property of the passing runs. Left, in this order:

1. The quiescence of `wait_for_xsr_quiescence.py` as a process of its own next to
   `ConnectionManager`.
2. The latency client's busy flags and queues.
