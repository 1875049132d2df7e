# llm-dialect in TLA+

A verification project for the `llm-dialect` crate: TLA+ models of its streaming
core and of its request path, TLC runs on small instances, and theorems checked by
TLAPS. Source references are to `src/...` of the repository (`src/src/` is the crate).

The crate translates between three LLM wire dialects (Anthropic Messages, OpenAI
Chat Completions, OpenAI Responses) through one canonical model. A response is
streamed as *canonical chunks*: a server frames them as the SSE of the dialect its
client speaks, a client deframes the SSE of an upstream back into chunks. Both
directions are state machines fed by somebody else's event order. A request is a
conversation of *items*: a client renders it in its upstream's dialect, a server
parses, validates and deflates it to a chat request for its engine. Each translation
is a pure function; what is hard is that a conversation passes through many of them,
in different dialects, and comes back.

## Inventory

| component | state | operations | what makes it correct |
|---|---|---|---|
| canonical chunk (`canonical.rs`) | none | `to_sse_json`, `usage_frame` | one meaning for all dialects; prompt counts are cache-inclusive |
| stop window (`anthropic/stream.rs`) | withheld tail, its block, the match | `new`, `feed`, `take_tail` | shows exactly the text before the stop sequence, however it was cut |
| Anthropic framer (`anthropic/stream.rs`) | open blocks, channel indices, pending stop reason and usage, stop window | `chunk_to_sse_events`, `finalize_stream`, the Err path | deltas and stops for open blocks, blocks one after the other in orderly turns, one terminal, nothing lost or reordered, honest usage |
| Responses framer (`openai_responses/stream.rs`) | output items, the open item, calls by id and by index, usage, sequence number | `frame_item`, `finish` | bracketed items, snapshots that agree with deltas, arguments to the right call |
| chat framer (`openai_chat/stream.rs`) | role pending, `[DONE]` sent | `frame_chunk`, `frame_error`, `finish` | every chunk once, usage if opted in, `[DONE]` always |
| SSE pump (`sse.rs`) | none of its own | maps every item, chains the finalizer | the finalizer runs once, after the last item |
| three deframers (`*/deframe.rs`) | open blocks / done flags / items by position and last sequence number | `push`, `finalize` | an illegal event is an error, a truncated body too |
| async client (`client.rs`) | one deframer per stream | `stream`, `resp_stream`, `send` | the caller can trust how a stream ends |
| blocking client (`client_sync.rs`) | pump thread, bounded channel, iterator | `stream_blocking`, `next`, drop | order, backpressure, no deadlock, abort |
| items model (`items.rs`) | none | `validate` | tool results refer to calls made before them |
| deflate (`deflate.rs`) | one accumulator per message | `fold`, `finish`, `items_to_chat_request` | item order, tool results right after their calls, settings in one place |
| request parsers (`*/req.rs`) | none | `from_anthropic`, `from_openai_chat`, `from_openai_responses`, `require_max_tokens` | refuse what cannot be said, keep what can |
| request renderers (`*/req_out.rs`, `deflate.rs`) | none | `to_anthropic`, `to_openai_responses`, `items_to_chat_request` | the server of the same dialect reads back what was meant |
| non-streaming responses (`*/out.rs`, `*/resp_in.rs`) | none | one function each way | usage arithmetic, stop reasons, turns that can be pushed back |
| errors (`error.rs`, `anthropic/out.rs`) | none | status and body of one error, the client's reading of them | which failure it was; upstream words stay with the server |

Chunks flow `upstream -> deframer -> client stream -> (blocking bridge) -> caller`
and `engine -> framer -> SSE pump -> client`. Requests that are not streamed flow
`conversation -> renderer -> parser -> validate -> deflate -> engine`, and their replies
`engine -> out.rs -> resp_in.rs -> conversation`. Components call each other
synchronously; the two places where actors meet are the HTTP connection between a
framer and a deframer, which may break anywhere, and the channel between the pump
thread and the blocking iterator. Hard behaviours: the order in which an upstream
mixes text, thinking, tool calls, usage and finish; early ends and errors at any
point; the division of text into deltas; two threads over a bounded channel; a conversation
that goes on in another dialect than it began, with tool results, signed thinking and
cache markers that must stay where they belong.
Nothing is persisted, so nothing recovers from a crash. `PROJECT.json` lists the
hazards one by one, each at its line, with the properties that cover it.

## Modules

`Canonical` has the chunk. Text is a sequence of characters of a small alphabet;
an id is a number (0 for none); a tool name is only present or absent, since no
code path depends on which name it is. Wording, JSON layout and logging are left
out.

*Wire modules* (`AnthropicWire`, `ChatWire`, `ResponsesWire`) have the frames of a
dialect, shared by its framer and its deframer.

*Serving side.*
- `StopWindow` is the window as pure operators (`Feed`, `TakeTail`);
  `StopWindowStream` drives it over blocks and deltas of every size, and
  `MCStopWindow` instantiates it.
- `AnthropicFramer`: `StreamState` is a record that operators named after the
  functions pass on (`open_block`, `close_block`, `emit_terminal`,
  `chunk_to_sse_events`, ...); its field `out` is the body so far. `Chunk`, `Fail`
  and `End` are what `anthropic_stream_response` does on `sse_response`: an Ok
  item, an Err item, the chained finalizer. `AnthropicContent` has the properties
  about content, `MCAnthropic` the chunk alphabets.
- `ResponsesFramer`, `ResponsesContent`, `MCResponses`: the same split.
- `OpenAiFramer`: the chat surface; checked inside `ChatRelay`.
- `TurnStream` is the abstract specification of all three: a stream speaks, ends
  with one terminal that nothing follows, and then the body closes. Each framer is
  shown to implement it (`ImplementsTurn`, a refinement mapping from the frames
  sent and the pump's state).

*Reading side.*
- `AnthropicDeframer`, `ChatDeframer`, `ResponsesDeframer` are pure: `push` and
  `finalize` over `DeframeOut`.
- `ClientStream` composes them with `resp_stream`: refusal, answer, each event, a
  broken connection, the end of the body. `ClientContent` has its properties,
  `MCClient` the event alphabets.
- `ChatRelay` composes `OpenAiFramer` and `ClientStream` over one connection: a
  server's body is read event by event by a client, and may be cut anywhere.

*Requests and replies.*
- `Items` has the items, the request and `validate`. JSON values are records tagged with
  their type, numbers included; text is a sequence of words, so that the marks a
  translation adds (newlines, `[tool error]`) can be told from what was said.
- `Deflate` folds the items of a message (`fold`, `finish`) and makes the chat request,
  extras and prefill mark included.
- `AnthropicRequests`, `ChatRequests`, `ResponsesRequests` have the parser and the
  renderer of a dialect, with every refusal; all refusals are one error kind, as in the
  code. `Null` is a missing field; `U32` the width a cap is cut to.
- `Replies` has the three response bodies and their readers, `Errors` the error
  envelopes and what a client reads in them.
- `Exchange` composes all of it: the caller sends its conversation over a dialect of its
  choice, the server ingests it, the engine answers or fails, the client reads, and the
  caller pushes the turn, answers its calls in one of several styles and sends again.
  The connection may be lost at any point, and bodies of other clients arrive.
  `ExchangeContent` has its properties, `MCExchange` conversations, answers and bodies.

*The bridge.* `BlockingBridge` has the two threads and the channel of the blocking
client, and its theorems.

*Proofs.* `X_proofs` has the theorems about the module it extends; `StopWindowLemmas` has the
lemmas about sequences they all share besides those about the window.

Definitions marked *Mutant* are plausible bugs, not part of any specification.
Each property is shown to fail when the definition after it is replaced by one.

## Runs

| run | shows | bounds |
|---|---|---|
| `stop_window` | the window is exact for one (self-overlapping) stop sequence | 7 characters per block, deltas up to 4, two blocks: longer than two overlapping partial matches of a 3-character sequence |
| `anthropic_mixed` | bracketed blocks, order, one terminal, usage, refinement, for any chunk order | 16 kinds of chunk, 4 chunks: each hazard listed needs at most three chunks and an end |
| `anthropic_orderly` | stop sequence across channels; fresh indices; firing is final | 5 chunks, calls numbered as OpenAI-style upstreams do |
| `responses_items` | item lifecycle, text of snapshots, routing of arguments, honest verdict, usage, refinement | 14 kinds of chunk, 4 chunks, two ids under one index and two id-less calls |
| `client_stream` | all three deframers on well-formed and broken bodies, cut anywhere | 5 events of up to 15 kinds |
| `chat_relay` | framer to deframer over a connection that may break | 3 chunks, every interleaving of writing, reading and breaking |
| `blocking_bridge` | order, backpressure, end, no deadlock, abort | the real capacity of 8 and 11 items, so that the channel fills |
| `exchange` | what the engine is asked, what the caller is told, and that a conversation can go on | 3 calls, each over any of the dialects; 6 conversations to begin with, 9 answers to the first call and 3 to the second; 3 styles of going on; about 50 bodies of other clients |

The bounds of `exchange`: the second call is the first whose conversation holds a turn
that a translation made, the third the first that holds one after another, possibly of
two more dialects; what a fourth would add is a longer list of such turns, which every
function treats one by one. The engine's answers cover each kind of thinking block, calls
with an upstream's and with Anthropic's ids and without any, arguments that are no JSON,
each stop reason, a stop sequence that is matched, cut or coincidental, and counters that
leave out the cache. `U32` is 9000 instead of 2^32 so that a cap can exceed it; no cap of
the caller does.

Four runs are expected to fail; each is a disagreement between the code and what it
says of itself, with its counterexample:

- `stop_leak`: of two stop sequences in one buffer the first in the *list* wins, and
  the one further left in the text reaches the client.
- `index_reuse`: call 0, text, call 1 gives call 1 the index of the text block.
- `error_kinds`: a rate limit sent in the chat envelope is read as `Unauthorized`.
- `parallel_calls`: two calls of one turn come back over Responses as two assistant
  messages, the first without its result after it.

Seen while modelling, without a run of their own.

Streams:
- an error after the usage trailer is framed after `message_stop`;
- the Responses terminal leaves with the usage of an earlier ping, if there was one;
- a `ping` before `message_start` ends the client's stream silently, as the end of the body
  does there, although a truncated body is promised to surface (`client.rs:192`);
- a stream without any chunk has no terminal on the Anthropic and Responses surfaces
  (`TurnStream` allows it); tool blocks are still framed after a stop sequence fired;
- usage on a text chunk without a finish is dropped by the Anthropic surface;
- the Responses error path does not close open items;
- cache counters do not survive a chat round trip (`usage_frame` and `usage_from` name
  them differently);
- the chat deframer skips a payload whose delta has a role whole, any words in it included
  (`openai_chat/deframe.rs:104-106`);
- "SSE blocks are sequential" (`anthropic/stream.rs:225`, and "block {i} started twice" of
  `stream_matrix_tests.rs:184-186`) is so in orderly turns only: `open_block` stops the blocks
  below the new one and no other, so that a call named again starts its block again while it is
  open, and a call below one already named starts while the other's block is open
  (`BlocksBracketed` says what holds of every turn, and `Sequential` of the orderly ones);
- the Anthropic deframer drops tool ids and names and takes 0 for every index;
- it checks less than "block nesting and the terminal pair" (`anthropic/deframe.rs:10`): it
  takes a `message_stop` that no `message_delta` precedes (against `deframe.rs:210-212`), a
  second start of an open block, and blocks before `message_start` or after `message_delta`;
- a Responses answer that is incomplete or failed for a reason other than the two known ones,
  or for none, is read as finished, and with calls as `tool_calls`
  (`openai_responses/deframe.rs:153-160`, against the comment at 218);
- a dropped blocking iterator whose upstream is silent is not aborted until the upstream
  speaks.

Requests:
- `to_openai_responses` pushes a message's text after its calls and reasoning although
  its comment says in order (`openai_responses/req_out.rs:76-77`), so a last turn of text
  and calls is taken for one to go on with;
- when nothing of a conversation has a place in Responses, the empty message it becomes
  (`openai_responses/req_out.rs:181-184`: "parseable ... as a no-op turn") is refused by
  the crate's own parser (`openai_responses/req.rs:250`);
- a message that holds a call and its result is accepted, and deflated result first
  (`Mixed`); `Role::Tool` is refused by `to_anthropic`;
- `is_error` is lost over Responses; a `Refusal` item over Anthropic;
- tool results in parts are refused by `to_openai_responses` and put into one JSON text
  by the Anthropic server, which the engine is given as the result (`JsonText`, one word that
  stands for the encoding);
- `parallel_tool_calls = false` is not rendered by `to_anthropic`; a thinking budget does
  not pass the chat dialect;
- `to_anthropic` accepts a budget above the default cap of 4096, or a temperature above
  1, which its server refuses (`Compatible`);
- slug sanitising in `anthropic_tool_use_id` maps "a:0" and "a_0" to the same id;
- `from_anthropic` indexes the name and the schema of a tool without asking whether they
  are there (`anthropic/req.rs:351-356`): a tool that lacks one panics the handler instead of
  being refused, and the client loses its connection (`Panic`, the third case of `Ingest`).

Replies:
- `content_filter` becomes `stop` over Anthropic (`VerdictTrue` says so); `cached_read` is lost in a Responses
  body;
- `strip_stop_from_blocks` cuts every block although its comment says the first
  (`anthropic/out.rs:152`), signed thinking included, whose signature stays (`Genuine`);
- an empty reply is "ready to push" and makes the next request invalid (`Unsayable`).

Assumptions the runs make about upstreams are named: `PoliteTurn` (after the finish
only a usage trailer, usage reported once, an id named once), `OrderlyTurn` (calls
numbered from 0, none named after text has resumed), and `LateErrors = FALSE` (no error
after a completed turn). `anthropic_mixed` and `client_stream` assume nothing of the order
of events: a Responses position may be given an item twice, or deltas before it has one. The
chat alphabet of `client_stream` has no words in the preamble with the role
(`WordsInChoices` below).
In `exchange`, `Stamped` says that response ids are unique and that Anthropic-style call
ids are, while other upstreams count their calls anew in every message.

### Fairness

Framers: weak fairness of `End` only, since the source is finite or cut by its idle timeout;
no chunk is promised. `ChatRelay`: the same for the serving end; nothing is
promised about the connection or the reader. `BlockingBridge`: weak fairness of each
thread's enabled steps; `LiveSpec` adds an upstream that goes on speaking until it
ends, without which neither `NextReturns` nor `DropAborts` could hold, because the client
sets no timeout. Deadlock is not checked: every modelled stream really stops.
For the Responses surface only the safety part of `TurnStream` is checked. `Exchange`
has no fairness: nothing is promised about the connection, the engine or the caller, and
its properties are about what was asked and told.

## Proofs

TLAPS checks every theorem below for all values of the constants; the assumptions
are the named `ASSUME`s of the modules, nothing else is taken for granted.

**The stop window** (`StopWindowLemmas`, `StopWindowStream_proofs`): any alphabet, any
list of stop sequences (empty ones and an empty list included), any deltas.
`WellFormed`, `NothingIsLost`, `NoLeak` and `CutIsExact` are invariants `stop_window` checks on
one sequence, `ShowsABeginning` holds besides. The argument:
- `LeastNat` (every non-empty set of naturals has a least element, from the
  well-foundedness of inclusion on finite sets) gives `Find`, `FirstFired` and
  `MaxLen` their meaning; `MaxLenIsMax` (the length of a usable sequence, and of none a smaller one) is the
  one place where the length of the list matters.
- `FeedFires` and `FeedPasses` say what one call of `feed` returns.
- `Straddle` is why `MaxLen - 1` characters are enough: an occurrence that is not over
  before the new text begins reaches back at most `Len(s) - 1` characters.
- `IInv` is inductive. `NothingLost` needs `Surrendered` (the tail is of the open block
  only, or a tail of one block would be put before the text of the next).
  `NoLeakBeforeFiring` needs `Full` (once part of a block was shown, *exactly*
  `MaxLen - 1` characters are withheld: with fewer, `Straddle` does not apply) and
  `Quiet` (no occurrence so far). `Split_wide`, `Split_narrow`, `Feed_forgetful` and
  `Close_dropping` are the mutants TLC finds.

`CutIsExact` is `ExactCut`, assuming what that property speaks of, a list with one sequence in
it (`OneSequence`). Before the match it follows from `Full` and `Quiet`. After it the window has
looked at one buffer only, and must have found what a search of everything said would find:
`FindShifts` says that the first occurrence in the buffer is the first in the text, because one
that began in what was already shown would have been over before (`StraddleAt`), `FindStays`
that nothing that follows changes it; `Cuts` carries the result through later deltas and blocks.

`NoLeak` speaks of the time before a sequence fires. After it, the first sequence of
the list may have fired although another began further left: that is `stop_leak`.

**The bridge** (`BlockingBridge`): any capacity (`CapacityAssumption`), any
length of stream. `HeldBack`, `EndIsTrue` and `WireOrder` follow from `IInv`: either the
runtime came up and the caller's items, the channel's and the one in the pump's hand
count up to the last item yielded (`Counted`), or it did not and its error is all there
is (`Unbuilt`). `Closed` says what an exhausted iterator knows, `Fresh` that nothing was
sent before the runtime came up. Only `Send`, `Next_some`, `BuildFails` and `Drop` touch
the channel; the other steps change one program counter.

**The Anthropic surface** (`AnthropicContent_proofs`): any chunks, any stop sequences,
any bound on the turn. The invariant divides the framer's life in three: `Silent` until
the first chunk, `Speaking` while nothing but non-terminal frames have been sent, then
stopped with an empty body or one that `Ends` in its only terminal. There is one lemma
per function and per section of `chunk_to_sse_events`; each but `emit_terminal`
keeps a `Speaking` state `Speaking`, and `TerminalType` and `FailType` are the only two
ways out of it with a frame. `AscendingExists` and `AfterExists` show that the two loops
(over open blocks, over tool calls) are well defined for every input; `Based` is why the
loop over calls keeps the base index it started with. `TypeCorrect` holds with or
without `LateErrors`; `TerminalOnce` assumes the source does not fail after its turn,
and without that the error becomes a second one.

**Its blocks** (also `AnthropicContent_proofs`): again any chunks, stop sequences and bound, with
or without `LateErrors`; `Bracketing` is `BlocksBracketed`. The framer never looks at what it
has sent: it decides from its vector of open blocks. So the invariant is that the vector is
right (`Tracked`: block *i* is set exactly if the body has a start of *i* that no stop of *i*
follows), on top of a body whose deltas and stops so far were for open blocks and whose
starts found none below them open (`Balanced`)
and which has only its preamble and frames of blocks (`Voiced`). A life goes from
`Untouched` over `Nested` to `Settled`, and there is again one lemma per function and
section. The loop that closes blocks is the hard step: `StopsOnce` says it stops each open
block exactly once (an ascending enumeration of a finite set is an injection between sets of
the same size, hence onto), `StopsAppend` what is left open after it.
That the blocks of an orderly turn are `Sequential` follows with `FInv` below: each start there
has a higher index than those before it, and so finds all of their blocks below it, hence
stopped.

**Its content** (also `AnthropicContent_proofs`): any chunks, stop sequences and bound. The texts
of a body and of a history are compared by folding both: `FlattenSeq` over a sequence of
texts is characterised without induction over data (`FlattensExists`, `FlattenAppend` in
`StopWindowLemmas`, from `FlattenSeq`'s recursive function), and `Along(G, q)` is the text
that `G` reads off the elements of `q`. Four invariants on top of the framer's `IInv`:
- `CInv`: once a sequence has fired nothing of it is withheld (`Spent`), the pending usage is
  that of the last report the surface takes up (`Owing`, `Latest`), and a completed body
  `Bills` it. From it follow `UsageAlwaysSurvives` and, with the frames each function sends
  after a match, the action property `FiringStays`. `Billed` carries the one exception of
  `wire_input`: a report of no input leaves the prompt count of the preamble in its place.
- `OInv`: without a stop sequence the body is `Plain`: its deltas are, in order, the contents
  of the chunks heard. `OrderAlwaysKept` is the consequence.
- `TInv`: what each channel was shown, with what the window withholds of it, is what the
  upstream said on it until a sequence fires, and a prefix of it afterwards (`Telling`,
  `Tells`). `TextAlwaysSurvives` is `[](FreshIndices => TextSurvives)`, not `[]TextSurvives`:
  a withheld tail is flushed into the block whose index it remembers, and where two blocks
  share an index (`index_reuse`) that may be a block of another channel. `FreshIndices` is
  what the code says of itself, `anthropic_orderly` checks both without a hypothesis on the
  turns it has, and `index_reuse` shows a turn without it.
- `FInv`: `FreshAlways` and `TextSurvivesOrderly` put the hypothesis on the upstream instead
  (`OrderlyTurns`): calls are named in ascending order of their index, and none once text,
  thinking or a signature has followed a chunk with calls. `MCAnthropic_orderly`'s turns are
  such turns. Every index started has a slot in the vector of blocks (`Roomy`), so a block put
  at its end is new; the slots of calls end, until a channel resumes, at the greatest index
  named (`Numbered`), so a call with a greater one is new too (`Fits` joins the two).
- `AInv`: `ArgsNeverHoled` is `ArgsWithoutHoles` and needs no hypothesis. The n-th start of a
  tool block in the body (`Marks`) belongs to the n-th naming among the calls heard
  (`Namings`): both carry one index and are superseded together, by the next start and the
  next naming of that index; what was streamed into the block is a prefix of what was sent for
  the call, and all of it while the block is open (`Pair`, `Whole`). A channel that resumes
  closes the block, what is sent for the call after that is dropped, and so the prefix stays
  one (`Holeless`).
- `TurnsImplemented` is the refinement: from the classification of `IInv`, every step is a
  step of `TurnStream` or a stutter, its fairness apart. It assumes `~LateErrors`, since an
  error after `message_stop` is framed after it and the client is told two endings.

**The Responses surface** (`ResponsesContent_proofs`): any chunks and any bound. Here the
framer keeps the whole response (its output items) beside the body. The proofs compare both
with an *account* `h`: what was said, thought, finished with and billed, whether the terminal
is out. `Sound(h)` is the set of states whose body says what `h` says, whose maps, open item
and open calls point at items of the right type (`Pointed`), and whose items hold the deltas
sent for them (`Agrees`); `Framing(h)` those whose items are moreover bracketed (`Woven`:
added once, in position order, done once or still open) until the terminal is out. One lemma
per function and section says from which account to which it leads.
- `SoundnessInvariance` assumes nothing of the upstream: `WellFormed` (`TypeOK`) and
  `TextAlwaysCarried` hold on every turn.
- `AccountInvariance` assumes `Finishing`: after the finish an upstream sends at most a usage
  report. It is the part of `PoliteTurn` the surface needs: nothing stops content that comes
  after the terminal from being framed (the hazard at `openai_responses/stream.rs:345`), and
  then items are added after `completed`. `ItemsAlwaysBracketed`, `VerdictAlwaysHonest` and
  `TurnsImplemented` (with `~LateErrors`, as above) follow; `UsageAlwaysCarried` assumes
  besides that usage is reported once (`ReportsOnce`), since an earlier ping would leave with
  the terminal.
- `ArgsAlwaysReach` is `ArgsReachTheirCall`. The invariant (`CInv`) sets the framer's two maps
  beside the deltas heard, told from the history alone (`Fit`): the calls first named, in order,
  are the function-call items of the output, none twice (`OwnersOf`); the ids in `tool_ids` and
  the indices in `tool_items` are exactly those named, and each leads to the item of its caller
  (`Ways`); that item holds the arguments sent for the caller (`Holds`). Sections that open, fill
  or close other items leave all that alone (`Undisturbed`), and so only a tool-call delta has to
  be argued: naming a new call adds one caller, one item and its ways (`WaysWiden`,
  `OpenedHolds`), and arguments go where the history says (`ResolvedIs`). It assumes
  `SteadyTurns`, weaker than the "an id is named once" of `PoliteTurn`: an id may be named
  again, but under its own index and only while no other id has been named there since. The code
  needs that much: `open_call` leaves the index map alone when the id is known, so arguments
  without an id would go on to the call named in between.

`StopSeqs` occurs in this module, as in those of the next three sections, only because they
share the lemmas about sequences with the window.

**The chat surface and its relay** (`ChatRelay_proofs`): any chunks and bound, with or without
the usage payload, the connection cut anywhere. The invariant is one formula per end and the
connection between them. `Serving`: the body written says what the chunks heard become
(`Along(Yields, body) = Along(Relays, heard)`, so each frame is read as what was put into it),
and it has one of three shapes: payloads only, payloads and `[DONE]`, or payloads, the error
and `[DONE]`. `Receiving`: the body read is the beginning of the body written (`Leads`), and the
caller has what it says, or, once its stream has failed, a beginning of it and the error.
`RelayAlwaysHonest` is `RelayHonest`: a stream that ends without an error was whole, because
only `[DONE]` satisfies the deframer, and a `[DONE]` that no error precedes is written only when
the source is exhausted. For the same reason `TurnsImplemented` needs no hypothesis on late
errors: nothing can fail after the client was told that the turn is complete.

**The client's stream** (`ClientStream_proofs`): any upstream, well behaved or not, any
bounds; `HonestAlways` is `HonestEnd`: an error comes last, and a stream without one has come
to its terminal, or, over Anthropic, has ended before any `message_start` and then surfaced no
words. One lemma per deframer says what a push can do to
its three or two flags (`AnthropicPush`, `ChatPush`, `ResponsesPush`); nothing else of a
deframer matters. `Open` is what is known while the stream goes on: the body holds no
terminal (for Responses, none or one as its last event, whose chunk has been surfaced), and
an Anthropic deframer has started if and only if the body has. An event either fails the
stream, keeps it `Open`, or satisfies the deframer, and then the body is `Whole`: its last
event is the terminal of the dialect and its only one. `MInv` adds that before a
`message_start` no block is open, so that whatever is surfaced is `Wordless`.
`PayloadsAssumption` says that a chat payload is one of four kinds, which the deframer's
own case distinction makes it.
`AcceptableTaken` is `OnlyAcceptable`, again for any upstream: what a deframer validates, said
of the events it took. A stream that goes on has taken an `Acceptable` body, and its deframer
`Tracks` it: its set of blocks is the set of blocks the body leaves open, its flags say whether there was a preamble
and a usage report, its last sequence number is the greatest one seen. The event a stream
fails on is the last of the body, so what was taken is the body without it (`TakenFront`).
`NumbersAssumption` says that a sequence number is a number (an `i64`).
`ContentArrivesOnce` is `ContentOnce`, in two parts.
- `TextArrivesOnce`: a push surfaces the words of its event and no others, and nothing if there
  are none (`Repeats`, one lemma per deframer), so the items say what the body says until the
  stream ends, and what the body without its last event says if it failed there (`SInv`, on top
  of the invariant above). `WordsAssumption` gives the wire its types. The hypothesis
  `WordsInChoices` is about chat upstreams: the deframer skips a payload whose delta has a role
  whole (`openai_chat/deframe.rs:104-106`), so words sent along with a role do not arrive.
- `PublishedAlways` needs no hypothesis. The verdict it speaks of is that of the answer's
  `status`, whatever event it comes with; a reason the code does not know counts as none. What a Responses deframer has accumulated is told from
  the body alone (`Tally`): the item at a position is the one last added there, with the deltas of
  its own kind since, and nothing else is held. Every event either adds an item, which starts its
  position over (`TallyAdding`), or extends one (`TallyDelta`), or leaves them alone (`TallyOther`).
  Before the terminal no chunk is finished (`Unfinished`), at the terminal the chunk is read off
  the tally in output order (`ChunkCollected`), and after it every push fails.

**The exchange** (`Exchange_proofs`): any conversations, answers, failures, bodies of other
clients and number of calls. `Linked` ties the response to the engine's answer or failure
and the outcome to the response: a body can only be read as a reply if it was one, since
no failure has a status of 2xx (`FailureStatus`, with `UpstreamStatus` for the clamp) and
what refuses a body refuses it with an error (`RefusedParse`, `RefusedDeflate`) unless it
panics, and then the client has no response at all. `OutcomeKept` (the counts, and of the
verdicts length, content_filter and the stop sequence, as far as the dialect has them) then
follows from two facts about numbers and names: `FreshRoundTrip` (the
saturating subtraction of the cache is undone by the addition) and `StopReasonRoundTrip`.
`ErrorsKept` follows from `AnthropicKinds`, which reads every envelope. The assumptions
are about the engine: counters are numbers, `max_tokens` is Anthropic's word and not a
canonical verdict, an upstream's failure is not a success and its words are not the crate's
own (`AnswersAssumption`, `FailuresAssumption`).

`ReplyKeptTrue` is `ReplyTrue`, for answers of any length: any text, any list of calls with any
arguments, any list of thinking blocks. `Shows` is what a list of items says (its text, its
calls, how many thoughts, and that those come first); a reply is the concatenation of three
lists whose items have one type each, and `TurnShows` adds them up. Each dialect has a lemma
that its reader makes such a list of its body (`AnthropicReported`, `ChatReported`,
`ResponsesReported`): the body is read block by block, so the items of a concatenation are the
concatenation of the items (`AlongCat`), and one block makes one item (`AlongEach`). Over
Anthropic a stop sequence is cut off every block it ends (`StripShows`): a text block that
becomes empty is dropped, any other stays, the calls are untouched, and the text with the
sequence put back is the engine's (`SuffixCut`). That needs the sequences the server looks for
to be lists of words, which `StopsKept` carries from the caller's request through renderer and
parser (`RenderedStops`, `ParsedStops`); of a body of another client, or in another dialect,
nothing is needed, because only Anthropic echoes a sequence and only the caller is told.
The facts about sequences are stated in predicates of their own (`Of`, `MapsTo`, `Cat` in
`StopWindowLemmas`), because the provers instantiate lemmas about those and get lost in the
definitions of concatenation and flattening. `RequestsAssumption` and `AnswersAssumption` give
requests and answers the types of the code's structs, as far as the proof needs them: the
text of an answer is text, `stop_sequences` is an `Option<Vec<String>>`, thinking blocks are of
two kinds (`EngineBlocks`).
The attempt found the property wrong where no run had an instance: the arguments `null` are
read as `{}` over Anthropic, and an engine that gives an object instead of its text is read
as that object or as `{}`. `Readable` now says so and `MCExchange`'s answers hold both.

`MarkersKeptThere` is `MarkersOnTheirBlocks`, for conversations of any length. The invariant
(`MarksKept`) adds to it that the caller's conversation has the types of the code
(`Conversation`: items of five kinds, one marker for each item or no list of them), which is
what `RequestsAssumption` says of the conversations a caller begins with, `StylesAssumption` of
what it may add, and `ConversationGrows` preserves when a turn, its results and a remark are
pushed. The argument is one message: its blocks are its items that have one, each with its
marker (`Block`, `Blocks`), and `parse_message` makes one message of them, of the same role,
whose list of markers is again parallel to its items, or absent when all are `Null`
(`BlockBack`, `MessageBack`), so that rendering and parsing leave `Marked` of a message alone;
a message none of whose items has a block comes back as an empty text without a marker, and had
none that counts. `ConversationBack` adds the messages up, the system ones aside. The definitions involved filter by a join (`Filter`), since
the library's `SelectSeq` is recursive and nothing can be proved of it for every length.
The hypothesis `NullApart` says that `Null` is no JSON array and no list. TLC takes a model value
for it, of which this holds, but cannot evaluate a formula over every sequence, and so it is a
hypothesis of the theorem and no `ASSUME`.
The attempt found two flaws in the model. The guards of two arms of the `CASE` in `Block`
overlapped on redacted thinking, where the code's `match` takes the first arm and TLA+
either one; the later guard now excludes the earlier. And the property told a redacted
thought by its text, which it does not have; it is now told by its payload.

`ResultsKeptBehind` is `ResultsAfterCalls`, for conversations of any length and over all three
parsers: in the chat-shaped conversation the engine is given, every tool result stands behind a
message with its call. The invariant (`CallsFirst`) adds that the bodies on their way are lists
where the formats have lists (`ListedBody`): those of the client by its renderers
(`RenderedListed`, for conversations as `MarksKept` knows them), those of other clients by
`ForeignAssumption`, since a JSON list is what a parser reads one as. The parsers make lists of
messages with lists of items of it (`ParsedNeat`); `validate` lets none through in which a result
comes before its call (`ValidInOrder`); `deflate` keeps calls and results in that order, every
result in a message of its own behind the calls of an earlier turn (`DeflatedInOrder`,
`DeflatedBacked`); and what the client's extras add is never the list of messages, because a
field of the code's own stays when both have it (`Merged`).
The attempt found that the property did not hold as it was first stated. The chat parser accepts
`tool_calls` on a message of any role (src/src/dialect/openai_chat/req.rs:109-127), `validate`
counts them, and `deflate` renders them for an assistant only, so that a result may be left
without its call. `ResultsAfterCalls` excepts these requests (`Mixed`), and the run now has one.

Only model-checked:
- liveness (`NextReturns`, `DropAborts`, the `WF` of the framers' `TurnStream`), which rests on
  fairness and ENABLED;
- what becomes of a conversation on its way to the engine (`ConversationKept`, of which
  `ResultsUnambiguous` is a part, `ThinkingUnforged`, `SettingsKept`, `ReplayAccepted`): each is
  about three renderers, three parsers and `deflate` in sequence (twice over chat), and none of
  their proofs has been attempted.

## Not modelled

Names and required fields of JSON objects beyond those a branch looks at (the check of a
JSON type stands for the texts that fail it); tool schemas, which are opaque and passed
on; error wording and logging; headers, credentials and URLs; `total_tokens`, which is a
sum of two modelled counters; `reasoning_tokens` of a stream; the HTTP, TLS and SSE
libraries, whose part is a sequence of events that may end anywhere.

## Left for later

1. Anthropic and Responses relays (framer to deframer), then a gateway: the deframer of
   one dialect feeding the framer of another, with its end-to-end content properties.
2. More proofs: `ResultsFollowCalls` over one message.
