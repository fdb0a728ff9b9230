# Beemo in TLA+

Beemo is an HTTP/1.1 server in C++: one thread accepts connections, a pool of
threads runs an epoll loop, connections are shared between them without a lock,
and a hand-written parser works on whatever part of a request has arrived. This
directory holds TLA+ models of it, the TLC configurations that check them on
small instances, and proofs for TLAPS. Line numbers refer to the repository
under `src/`.

## 1. The system

| component | state | operations | talks to |
|---|---|---|---|
| event loop (`linux/ev_epoll.cpp`, `ev/evloop.h`) | the epoll set, `events_` (descriptor to weak pointer) behind `events_mtx_` | `reg`, `loop`, `handle_in`, `handle_out` | kernel; calls the server's callbacks; `reg` is called by T0 and by the workers |
| server (`http/src/server.cpp`) | `conns_` behind `conn_mtx_`, `conn_cond_` | `start`, `on_conn`, `on_rx`, `on_tx`, `on_close`, `~server` | acceptor, event loop, parser, routing |
| connection (`http/src/conn.cpp`, `linux/io_buf.cpp`, `linux/socket.cpp`) | `io_rx_`, `parsed_to_idx_`, `req_`, `io_tx_`, `status_`, the socket | `do_rx`, `do_tx`, `prepare_tx`, `reset_state`, destructor | kernel |
| thread pool (`http/src/pool.cpp`) | `jobs`, `stop`, behind `job_mutex`, `condition` | thread body, `submit`, `~pool` | runs `evloop::loop` |
| request parser (`http/src/parser.cpp`, `utils/src/parsing.cpp`) | none of its own; `req` carries it from call to call | `parse_headers`, `parse_content` | keyword map, URI parser, decoders |
| transfer codings (`http/src/encoding.cpp`) | the indices in `req` | `decode_chunked` and four decoders that do nothing | parser |
| routing, responses (`routing.cpp`, `err.cpp`, `msg.cpp`) | table of handlers, filled before `start` | `route_to_resource_handler`, `to_str` | handlers |
| URI parser (`uri/src/parser.cpp`) | none of its own; `struct uri`, which the parts of one URI and the calls for one request share | `parse_uri` and a function for each part | request parser |
| keyword map, timeouts, configuration, Windows port | see section 8 | | |

What is hard about it:

* **Hand-off without a lock.** `conn` has no mutex. What keeps two threads off
  one connection is `EPOLLET | EPOLLONESHOT` and the order of the steps in
  `reg`, `on_conn` and `on_close`.
* **Lifetime.** `conns_` owns, `events_` observes, every thread's local
  `shared_ptr` may turn out to be the last one; closing a descriptor frees its
  number for the next `accept` while events for the old one may still be in a
  worker's batch.
* **Two condition variables** notified outside their mutex.
* **Segmentation.** TCP cuts requests anywhere; the parser keeps an index into a
  buffer that grows, and restarts from it.
* **Positions and errors.** The URI parser cuts a text at positions it finds
  independently of each other, and its parts write one error flag in turn.
* **Failure.** `epoll_ctl`, `accept`, `recv` and `send` fail, peers shut down or
  reset at any moment.

## 2. Modules

| module | models | state and actions |
|---|---|---|
| `Kernel` | sockets and epoll as Beemo uses them (external) | `skt[f]`: the flags `open`, `inq`, `fin`, `rst`, `space`; `interest[f]`: `none`, `off`, `in`, `out`. `Peer*`: the remote end |
| `Evloop` | `evloop`, object lifetime | `pc[t]` names the place in `loop` and its callees; `batch`, `ev`, `weak`, `held`, `want`, `op` are the thread's locals; `events_`, `conns_` keep their names. One action between any two accesses to shared state: `reg` is `RegGet`, `RegCtl`, `RegPub`; `expired()` and `lock()` are two steps; dropping the last `shared_ptr` (`Release`) and closing the descriptor (`Destroy`) are two |
| `Server` | `server` on top of it | `WaitCapacity`, `Accept`, `Insert`, `OnRx`, `OnTx`, `OnClose`, `Notify`, `Destructor`; the properties |
| `ServerInv` | | the inductive invariants `IInv` and `CapacityInv` |
| `Handoff` | what the event loop promises its connections | `token[f]`: who may work on the connection of a descriptor; `phase[f]`: free, open, closed; `Accept`, `Arm`, `Deliver`, `Close`, `Free`, and `Lose` if tokens may get lost |
| `ServerHandoff` | `Server` implements `Handoff` | the refinement mapping `Token`, `Phase`; `QuietInv` |
| `Text`, `Uri`, `Headers`, `Encoding`, `Content` | string operations, URI parser, request parser, decoders, routing | operators: a buffer is a sequence of tokens (a word, `SP`, `CR`, `LF`, one token for each separator), a request is a record with the fields of `req`; `find`, `substr` and `npos` keep their arithmetic, `npos` being -1. `Only`, `Fold` and `Loop` of `Text` stand for the loops; they are recursive functions, so that proofs can use the modules |
| `UriCheck` | one call of `parse_uri` | `Write` makes the text, `Parse` parses it; the grammar it is measured by |
| `Stream` | one connection from peer to peer | `io_rx_`, `parsed_to_idx_`, `req_`, `keep_alive`, `io_tx_`; `HandleIn`, `HandleOut`, `HandleErr` |
| `Segments` | what `on_rx` makes of a text that comes in one piece | `Piece`, `OnePiece`; `AsOnePiece`, and what has to be so of a text and the places where it is cut (`ResumableCuts`, `NoTrailerRead`, `RightInOnePiece`) |
| `Pool` | `pool` | `jobs`, `stop`, `pc[t]`; `Take`, `Wait`, `Submit`, `NotifyOne`, `Stop`, `NotifyAll`, `Join` |
| `ServerProofs`, `RefinementProofs`, `PoolProofs`, `UriProofs`, `StreamProofs`, `SegmentProofs` | | the proofs |
| `LoopProofs`, `TextProofs` | | the lemmas they share: induction over the iterations of `Fold` and `Loop`, what `Find`, `Between` and their like return |
| `MCServer`, `MCStream`, `MCPool`, `MCUri` | | instances for TLC |

`Server` and `Stream` divide the work. `Server` has all threads and
connections, and leaves open what the parser makes of the input (`OnRx` may
wait for more, answer, or answer and give the connection up). `Stream` has one
connection with its bytes and takes each handler as one step; that is what
`SingleHandler` justifies, and what `Handoff` states in full: a connection has
one token, epoll has it while the descriptor is armed, `epoll_wait` gives it to
a worker, and the worker gives it back by arming the descriptor or destroys it
by closing. The mapping reads the token off the pcs: T0 has it from `accept` to
the `epoll_ctl` of `reg`, a worker from the moment the event is in its batch
until `epoll_ctl` or `on_close`. `Arm`, `Deliver`, `Close` and `Accept` are the
images of `RegCtl`, `EpollWait`, `OnClose` and `Accept`, `Free` that of
`Destroy`; `Lose` that of a failing `RegCtl` and of `DropEvent`, and it is only
possible when one of the two is (`CtlFails`, `EarlyPeer`). All other actions
stutter.

Three choices in `Evloop` deserve a word.

* A weak pointer to a dead object is `NoConn`, so `Release` of the last
  `shared_ptr` clears all weak pointers to it in the same step: the reference
  count is one atomic variable. The entry that stays in `events_` and an absent
  entry are then the same, as they are for `reg` and `loop`, which only ask
  `expired()`.
* Each `EPOLL_CTL_ADD` or `MOD` looks at the socket anew, so an armed descriptor
  is reported whenever it is ready; with one-shot registrations edge triggering
  adds nothing.
* The branch of `loop` for an event that is neither error, input nor output
  (`ev_epoll.cpp:95`) is not in the model: only `EPOLLHUP` alone would reach it,
  which TCP does not report without `EPOLLIN` or `EPOLLERR`.

`Stream` gives undefined behaviour and exceptions an outcome of their own:
`strncpy` on overlapping memory (`io_buf.cpp:25`) may garble the overlap when
`CopyCorrupts` is set; an exception that nothing catches ends the process
(`terminated`).

## 3. Runs

| run | checks | instance | shows |
|---|---|---|---|
| `faults` | `TypeOK`, `IInv`, `SingleHandler`, `HandlerOnItsSocket`, `NoNullConn`, `CtlOpValid`, `ConnLimit`, `SocketLimit`, `NoLostWakeup`, `HandoffSpec` | 2 workers, 2 descriptors, 2 objects, limit 1, batches of 2; `epoll_ctl` and `accept` fail, peers act at any time | one thread at a time works on a connection, on its own open socket; `lock()` never gives null; ADD and MOD are chosen right even when descriptors are reused; the limit holds in `conns_`, and descriptors exceed it only by those a worker is letting go of; T0 is always woken; every step is one of `Handoff` |
| `concurrent` | `NoOrphan`, `QuietInv` | 2 workers, 2 connections, no failures, peers silent until their connection is published | every open connection is armed, pending or handled, and no event comes early; no deadlock |
| `lost_event` (violated) | `NoOrphan` | 1 worker, 1 connection, peers act at any time | finding 1 |
| `live` | `HandoffSpec`, `InputServed`, `ResetClosed`, `AcceptorResumes` | 2 workers, 1 descriptor, 2 objects, no failures, fair | tokens are not lost, input is read, broken connections leave `conns_`, the acceptor resumes; no deadlock |
| `stream` | `TypeOK`, `AsOnePiece`, `FirstAnswer`, `TxIntegrity`, `Answered`, `ClosedWhenDone` | 42 scripts: requests with and without content, chunked (also with a space in the data), with a trailer section that arrives in one piece, a request for each way to be refused or to end the process; peers shut down or reset at any time; fair | between segments the parser is where it would be had all come in one piece, the first answer is the right one, requests are answered, responses arrive in order, connections are closed, for all segmentations but those of findings 2 and 3 |
| `cut_line`, `cut_head` (violated) | `FirstAnswer` | the segmentations left out of `stream` | findings 2 and 3 |
| `keep_alive` (violated) | `AnswersInOrder` | two requests on one connection | finding 4 |
| `early_fin` (violated) | `ClosedInTheEnd` | the peer shuts down in mid-request | finding 5 |
| `pool` | `TypeOK`, `JobTakenOnce`, `NoIdleWorker`, `NoSleeperLeft`, `AllStart`, `DestructorReturns` | 3 threads, 3 jobs that never return and one that does | each job is taken once, no wake-up is lost, neither that of a job nor that of the destructor, each loop gets a thread, the pool can be destroyed as long as no loop runs |
| `uri` | `TargetFound`, `AuthorityFound`, `PathSound`, `HostNamed` | all texts of up to 5 or 6 tokens over 6 alphabets, each with the flags of a call in `http/src/parser.cpp` | well-formed targets and hosts are accepted and cut rightly; a stored path is a path; an accepted host and port stand in the text |
| `uri_error` (violated) | `HostNamed` | absolute targets with a query | finding 6 |

**Bounds.** Two workers are the least with which a connection can be handed
over, and with T0 three threads can meet on one object. Two descriptors and two
objects with a limit of one connection let a descriptor be closed and reused
while its old object is still being let go, and let the sockets exceed the
limit, so that `ConnLimit` and `SocketLimit` can fail; the invariants of
`faults` and the refinement are proved for all sizes, so its instance only has
to be large enough to break wrong ones. In `Stream` a request has at most 40
tokens and `PeerSend` enumerates all cuts. The pool gets one job more than it
has threads. A URI text of 6 tokens has room for a scheme's `://` with a host
and a path behind it, one of 5 for userinfo, host, colon and port; each alphabet
has the delimiters that can get in each other's way and one forbidden character
or an IP literal. `Conns` bounds the objects alive at a time, no counter grows.

Deadlock is not checked where the system may stop: `accept` fails and T0 ends
(`faults`), an orphaned connection leaves nothing to do (`lost_event`), a
connection is closed for good (`Stream`), the pool has been joined (`Pool`), the
text has been parsed (`UriCheck`).

**Fairness.** `Server`: weak fairness for each worker inside an iteration and
for T0 outside `accept`, since the operating system runs every runnable thread
and no step waits except for `conn_mtx_`, whose holders never block; strong
fairness for the delivery of each descriptor, since epoll's ready list is a
queue. Weak fairness would not do, as a descriptor is not deliverable while all
workers are busy. Peers, `accept` and spurious wake-ups are not fair. `Stream`:
weak fairness for the handlers, which is what `Server` shows of them. `Pool`:
weak fairness for the threads and for the submitter inside a call; a job outside
`Loops` returns.

## 4. Findings

1. **An event can be lost when a connection is new** (`lost_event`). `reg` arms
   the descriptor (`ev_epoll.cpp:59`) before it stores the connection in
   `events_` (`:65`). A worker that gets the event in between finds nothing and
   drops it (`:78-82`); the registration is one-shot, so the connection stays in
   `conns_` and nobody serves it. `DEMO.md:26-31` says that exactly one worker
   receives the event and calls its handler; `TODO.md:47` asks why not all
   connections are being closed.
2. **A request line in two segments is refused** (`cut_line`), `parser.cpp:47`.
3. **A segment that ends with the header moves the content** (`cut_head`): the
   empty line is stepped over only if something follows it (`parser.cpp:68`).
4. **The second request gets the answer to the first** (`keep_alive`):
   `reset_state` resets the index and keeps the buffer (`conn.cpp:13`).
5. **A peer that shuts down in mid-request is never closed** (`early_fin`): the
   connection is registered for input again and again (`ev_epoll.cpp:113`).
6. **An error in a URI is forgotten** (`uri_error`): `parse_port` sets `has_err`
   when the port is not a number (`uri/src/parser.cpp:276`) and `parse_query`
   assigns it anew (`:333`), so that `host:1:?` has port 1. `parse_scheme`,
   `parse_userinfo`, `parse_host` and `parse_ipvfuture` do the same. `TODO.md:41`
   lists URI error propagation as done. `PathSound` and the run `uri` show what
   is safe all the same: `parse_path` only ever sets the flag and stores nothing
   when it does, and the order of the calls keeps a bad host from being matched.

Seen on the way, without a run: the trailer section of a chunked request is read
from one byte too far (`encoding.cpp:61`), so that trailer fields lose their
first bytes; if the section arrives in pieces its fields are read again and found
to be there already, or two bytes of it are taken for its end (`FirstAnswer`
fails with `CutTrailers = TRUE`); a space in a
chunk header ends its size (`encoding.cpp:24`), so that a header with an
extension whose end has not arrived yet is read all the same, with `npos` for
that end (`:41`); `parse_connection` is empty (`parser.cpp:292`) and
`connection: close` has no effect; `~server` deadlocks on `conn_mtx_` with
itself when a connection is open (`server.cpp:22-31`, action `Destructor`), and
`~pool` joins threads whose `loop` never returns;
`reg`'s result is ignored everywhere, so a failed `epoll_ctl` orphans its
connection; exceptions of `at`, `stoi` and `decode_map.at` end the process;
`to_str` leaves out the empty line when there is no content (`msg.cpp:35`); a
content type with parameters is refused (`parser.cpp:277`);
`max_req_line_len` is not enforced; a `//` in a query is taken for the start of
the authority (`uri/src/parser.cpp:47`, `TargetFound` fails with
`SlashesInQuery = TRUE`); the colon of a password is taken for that of the port
and a string constructor gets a range that ends before it begins (`:152`); the
authority of an absolute target keeps its `//`, so that its host is never the
server's: the answer is 421 if a port or a query makes the parser forget that
`/` is no character of a host, and 400 if not (or if there is userinfo). A
request without a Host field gets 421 unless its target has the authority, as
the authority is tested (`parser.cpp:302`) before the field is missed (`:308`). A list of codings may name any
keyword whose value is not 0: `TRACE`, say, for which `decode_map.at` throws.
A chunked content coding appends to the string it reads (`parser.cpp:357`), which
is undefined once that string moves; the model reads on from what it was.

## 5. Proofs

The first two modules extend `Server` and hold for any finite sets of workers
and descriptors, any set of objects and any limits, with or without failures and
early peers unless the theorem says so; `PoolProofs` holds for any finite set of
threads and any jobs; `UriProofs` for texts of any length over any alphabets,
parsed with any flags; `StreamProofs` and `SegmentProofs` for any requests,
well-formed or not, and any segments. The only assumptions are those on the constants
(`MaxEventsAssumption`, `FdsAssumption`, `ThreadsAssumption`, `ServerAssumption`,
`EpollAssumption`, `PoolAssumption`, `UsesAssumption`, `ScriptsAssumption`) and
those that stand in the table, in front of the colon.

| module | theorem | states |
|---|---|---|
| `ServerProofs` | `TypeCorrect` | `Spec => []TypeOK` |
| | `Inductive` | `Spec => []IInv` |
| | `OneThread` | `Spec => []SingleHandler` |
| | `RightSocket` | `Spec => []HandlerOnItsSocket` |
| | `LockSucceeds` | `Spec => []NoNullConn` |
| | `CtlOpCorrect` | `Spec => []CtlOpValid` |
| | `ConnsWithinLimit` | `Spec => []ConnLimit` |
| | `SocketsWithinLimit` | `Spec => []SocketLimit` |
| | `WakeupNotLost` | `Spec => []NoLostWakeup` |
| `RefinementProofs` | `Refinement` | `Spec => HandoffSpec` |
| | `TokenInOnePlace` | `Spec => []H!OnePlace` |
| | `NoEarlyEvent` | `~EarlyPeer`: `Spec => []QuietInv` |
| | `NothingForgotten` | `~EarlyPeer`, `~CtlFails`: `Spec => []NoOrphan` |
| `UriProofs` | `PathIsSound` | `Spec => []PathSound` |
| | `HostIsNamed` | no use with both authority and query has a `?`: `Spec => []HostNamed` |
| | `TargetIsFound` | `~SlashesInQuery`: `Spec => []TargetFound` |
| | `AuthorityIsFound` | `Spec => []AuthorityFound` |
| `StreamProofs` | `NothingLost` | `Spec => []TxIntegrity` |
| | `StreamTyped` | `Spec => []TypeOK` |
| `SegmentProofs` | `SegmentsDoNotMatter` | `ResumableCuts`: `Spec => []AsOnePiece` |
| | `FirstIsAnswered` | `ResumableCuts`, `NoTrailerRead` and `RightInOnePiece` at each place where a text may be cut: `Spec => []FirstAnswer` |
| `PoolProofs` | `PoolTypeCorrect` | `Spec => []TypeOK` |
| | `TakenOnce` | `Spec => []JobTakenOnce` |
| | `NoJobForgotten` | `Spec => []NoIdleWorker` |
| | `AllWake` | `Spec => []NoSleeperLeft` |

**The argument for the hand-off.** `SingleHandler` alone is not inductive: a
step that delivers an event knows nothing about who works on the connection.
`IInv` makes the right to work on a connection a token and says where it is. If
a descriptor is armed, `conns_` owns its connection (`TokenInv`); if an event for
it is pending with a worker, or a worker works on the connection, its
registration is off and the connection still owned, so that neither the kernel
nor a second worker has the token (`UniqueInv`); while T0 sets a connection up
nobody else holds it and the kernel does not know it; the thread that runs the
destructor is the only holder and no table mentions the connection any more.
`HandleInv` ties objects and descriptors one to one, which is what makes a
reused descriptor harmless, and `EventInv` ties a worker's event, weak pointer
and `shared_ptr` together: a weak pointer being looked at is owned by `conns_`,
so it cannot expire before `lock()`. There is one lemma for each action or group
of actions; `NoTokenMoves` serves those in which no worker receives a token.

**The argument for the refinement.** `IInv` is what makes the mapping work: it
says that `Token[f]` is never two places at once, so that each step moves one
token or none (`NothingMoves`, `OneMoves`, `OneChanges`), and one lemma for each
group of actions names the step of `Handoff` it maps to. `TokenInOnePlace` is
then an invariant of the abstract specification, a few lines long, and
`NothingForgotten` follows from it: if no token can get lost, the token of an
open connection is somewhere, and its three places are the three disjuncts of
`NoOrphan`. What `Handoff` cannot know is why `DropEvent` never happens without
early peers: a descriptor is armed before its connection is in `events_`, for
new connections only, and only in between. `QuietInv` says that the socket is
then as `accept` made it, so that there is nothing epoll could report; finding 1
is what happens without that assumption.

**The argument for the output.** `TxIntegrity` is strengthened with the types of
the three sequences and with the fact that a response is only prepared when
`io_tx_` is empty (`TxInv`): `interest` is `in` exactly while nothing is being
sent. Appending a response then adds the same text to `prepared` and to
`got \o io_tx_`, and sending `n` characters moves them from one to the other.

**The argument for the capacity.** T0 passes the test with room in `conns_`,
and nobody but T0 adds to it; so while T0 holds a connection the others number
less than the limit (`CapacityInv`). Every open socket is in `conns_` or in the
hands of a thread; T0's is counted within the limit, the workers have one each.

**The argument for the pool.** A job is in the queue or with a thread only
after it was submitted, which happens once, so a new job differs from all that
are about (`JobInv`). `NoIdleWorker` is inductive by itself: it counts awake
threads and a pending `notify_one` against the length of the queue, a thread
goes to sleep only on an empty queue, and each step that adds a job or takes an
awake thread away pays for it. `NoSleeperLeft` is inductive too: `stop` is set
and tested under the mutex, so nobody begins to wait after it is set, and
`notify_all` comes after that, though without the mutex.

**Loops.** The parsers are loops, so what they do for every input takes induction
over iterations, and a theorem that takes the invariant of the loop as a
parameter cannot be used by the provers. `LoopProofs` has the body and the
invariant as constants of the module instead, and proves once that a recursive
function of the kind `Fold` and `Loop` are made of exists and that an invariant
of the body holds of its last value (`LoopInvariant`); induction over numbers
comes from the well-foundedness of `<`. Each loop is then an instance:
`HeaderLoop`, `ChunkLoop`, `TrailerLoop`, `ListLoop` and so on.

**The argument for the parser.** `TypeOK` of `Stream` says that the index
`parse_headers` leaves behind is in the buffer, and the request in a state the
parser knows. It is not inductive: the parser runs on what it has stored. The
invariant `StreamInv` adds that all that is sent, queued and read are texts and
that the request is well-formed (`IsReq`): its fields and content are texts, its
lengths are not negative. There is a lemma for each function of the parser, from
`ParseVersion` to `ParseContent`, that it keeps this; the searches give `NPos` or
a place in the text, `NPos` plus two is still no place before the start, and
`HandleIn` only ever appends to the buffer.

**The argument for the URI parser.** Its parts are applied in turn
(`PartsInOrder`), so each is described by what it leaves alone (`PathPart`,
`QueryPart` and so on) and by what it stores. `PathIsSound` needs only that
`parse_path` stores a path or sets the flag. `HostIsNamed` follows the host and
the port through the pieces they are cut from (`IsPiece`) back to the text. The
other two go the other way: from where the grammar says that the delimiters are
to where the searches find them (`TargetCuts`, `AuthorityPlaces`), and from there
to what is stored. The two hypotheses are the limits of the code, not of the
proof: a query clears the error of a bad port (finding 6), and a `//` in a query
is taken for an authority (below finding 6).

**The argument for the segments.** `on_rx` runs the parser on a buffer that has
grown, with the request, the index and the place inside the content that the
call before has left. `AsOnePiece` says that this comes to the same as one call
with the whole buffer, and it is an induction over the segments: if the parser
waits after one call with `raw`, going on with a longer `text` from what that
call left gives what one call with `text` gives (`PieceResumed`). Each of the
parser's loops is compared with the same loop over the longer text: the two are
in the same state until the first has read what there is, since a search that
finds something in `raw` finds it in `text`, at the same place; then the second
goes on from there, as the next call does. There is such an argument for the
header lines (`HeadResumed`), the chunks (`ChunksResumed`) and the trailer
section (`TrailersResumed`), and `ContentResumed` for all kinds of content. `TextInv` (the
buffer and the queue are what the peer has sent, a prefix of the texts that ends
where it may be cut) and `WaitInv` (while nothing has been answered and the
connection waits for input, the parser waits for more) tie this to the steps of
`Stream`. `FirstIsAnswered` then needs nothing but what
the parser makes of a text in one piece.

The hypotheses are limits of the code, not of the proof. `Resumable` forbids a
segment that ends with the header, whose empty line the next call takes for
content (finding 3), and, in chunked content, a space in a chunk header
(see below finding 6) and chunks without a size; `NoTrailerRead` forbids that a segment
ends inside a trailer section of which a line has been read, as the section is
read again from its start. `RightInOnePiece` excludes finding 2 and whatever else
the parser may get wrong without any segmentation. `MCStream` evaluates all of
them, for each of its scripts and each place where it may be cut
(`CutsAreResumable`, `CutsAreAnswered`), so that they are known to be satisfied
by the requests of the run `stream`.

Only model-checked: liveness, as TLAPS does not reach fairness. Every safety
invariant and action property of the passing runs is proved.

## 6. Plan

Done: `Kernel`, `Evloop`, `Server`; `Text`, `Uri`, `Headers`, `Encoding`,
`Content`, `Stream`; `Pool`; `Handoff` and the refinement; type correctness,
hand-off, capacity, refinement, the pool's queue, the output, the parser's
index, the independence of segments and the first answer of `Stream`, and the
properties of the URI parser proved.

Left:

1. Shutdown: `~server`, `~pool` and the order in which members are destroyed
   while workers run. The steps are in `Server` (`Destructor`) and `Pool`
   (`Stop`, `Join`); what is missing is a statement of what they promise.
2. The fields of a trailer section as `Stream` properties, once the repository
   says what becomes of them.

## 7. Reading the mutants

Operators marked as mutants sit in front of the definition they vary (`RegPub`
and `RegPubCloses`, say): plausible slips, each of which breaks the property
named for it in `PROJECT.json`. No specification uses them.

## 8. Not modelled

* `on_timeout` and `utils::run`: dead code, called by nobody. The pool's per-job
  timeout is not used either (`pool.cpp:26`).
* In `Uri`, the characters inside a word: a word is made of letters or is a
  number. The `#` of a fragment is one more character no part may have.
* Starvation of one connection by another. `do_rx` reads until the socket is
  empty (`conn.cpp:37`), so that a peer that sends as fast as it is read keeps its
  worker; in the model the reading ends. Which descriptor a worker gets next is
  up to `epoll_wait`, whose fairness is assumed (section 3).
* The hash function of the keyword map (generated by gperf); its table is in
  `Text`.
* Set-up of the listening socket, configuration reading, logging.
* The Windows port: it is unfinished and does not compile (`evloop::loop` has no
  return type in `ev_iocp.cpp:53`) nor implement the interface of `evloop.h`.
* Bytes: tokens have no inner structure, so case folding, NUL bytes in
  `strncpy`, and numbers beyond the few in the requests are left out.
* The constructor and destructor of `evloop`; memory errors in them.
