-------------------------------- MODULE Items --------------------------------
(***************************************************************************)
(* The items model every request is translated to and from (items.rs), and *)
(* its validation.  A text is a sequence of tokens; a JSON value is a      *)
(* record whose field json names its type; a JSON object whose keys are    *)
(* free is a function from the keys it has.  Key order, wording and the    *)
(* inside of schemas are left out.                                         *)
(***************************************************************************)
EXTENDS Integers, SequencesExt

CONSTANTS Null,   \* None, JSON null and an absent key, which the code reads alike
          U32     \* 2^32, the width of a token budget

ASSUME WidthAssumption == U32 \in Nat \ {0}

Roles == {"system", "user", "assistant", "tool"}

-----------------------------------------------------------------------------
(* Texts and JSON values *)
NL == "\n"
Spaces == {" ", NL}

Blank(t) == ToSet(t) \subseteq Spaces

Join(texts, sep) ==
  FlattenSeq([k \in DOMAIN texts |-> (IF k = 1 THEN <<>> ELSE sep) \o texts[k]])

Lines(t) ==
  LET cuts == SetToSortSeq({0, Len(t) + 1} \cup {k \in DOMAIN t : t[k] = NL}, <)
  IN  [k \in 1 .. Len(cuts) - 1 |-> SubSeq(t, cuts[k] + 1, cuts[k + 1] - 1)]

Str(t) == [json |-> "string", text |-> t]
Arr(q) == [json |-> "array", parts |-> q]

Is(x, json) == x # Null /\ x.json = json

(* v[k] and v.get(k) *)
Get(v, k) == IF k \in DOMAIN v THEN v[k] ELSE Null

(* The fields that are there, of a record that may hold Nulls *)
Present(r) == [k \in {k \in DOMAIN r : r[k] # Null} |-> r[k]]

(* What f has, and what only g has *)
Merged(f, g) == [k \in DOMAIN f \cup DOMAIN g |-> IF k \in DOMAIN f THEN f[k] ELSE g[k]]

Only(v, keys) == Present([k \in DOMAIN v \cap keys |-> v[k]])

(* filter_map over the text of an array's parts *)
PartTexts(parts) == LET some == SelectSeq(parts, LAMBDA p : p.text # Null)
                    IN  [k \in DOMAIN some |-> some[k].text]

(* stop: one string or an array of them *)
StopList(stop) ==
  IF stop \in {Null, Str(<<>>), Arr(<<>>)} THEN Null
  ELSE IF Is(stop, "string") THEN <<stop.text>> ELSE stop.parts

(* as u32: the cast wraps *)
Cast(n) == IF n = Null THEN Null ELSE n % U32

FirstOf(x, y) == IF x # Null THEN x ELSE y

(* serde_json's to_string, then from_str; Garbled is no JSON at all *)
Garbled == "garbled"
Encoded(x) == [json |-> "string", value |-> x]
Decoded(s) ==
  IF (Is(s, "string") /\ s.value # Garbled) \/ Is(s, "object") THEN s.value ELSE "null"

-----------------------------------------------------------------------------
(* Content items *)
Text(t) == [type |-> "text", text |-> t]
Refusal(t) == [type |-> "refusal", text |-> t]
Thinking(t, signature, encrypted, redacted) ==
  [type |-> "thinking", text |-> t, signature |-> signature,
   encrypted |-> encrypted, redacted_data |-> redacted]
ToolCall(id, name, args) ==
  [type |-> "tool_call", id |-> id, name |-> name, arguments |-> args]
ToolResult(id, content, is_error) ==
  [type |-> "tool_result", tool_call_id |-> id, content |-> content, is_error |-> is_error]

(* The elements that pass a test: SelectSeq, as a join *)
Filter(q, Test(_)) == FlattenSeq([k \in DOMAIN q |-> IF Test(q[k]) THEN <<q[k]>> ELSE <<>>])

OfType(items, types) == Filter(items, LAMBDA it : it.type \in types)

TextOf(items, types) ==
  LET some == OfType(items, types) IN FlattenSeq([k \in DOMAIN some |-> some[k].text])

(* A message; cc is parallel to its items, or empty *)
Message(role, items) == [role |-> role, items |-> items, cc |-> <<>>, name |-> Null]

(* The system texts, joined *)
SystemText(messages) ==
  LET sys == SelectSeq(messages, LAMBDA m : m.role = "system")
      texts == [k \in DOMAIN sys |-> TextOf(sys[k].items, {"text"})]
  IN  Join(SelectSeq(texts, LAMBDA t : t # <<>>), <<NL>>)

DefaultRequest ==
  [model |-> "m", messages |-> <<>>, stream |-> FALSE, max_tokens |-> Null,
   temperature |-> Null, top_p |-> Null, stop_sequences |-> Null, tools |-> <<>>,
   tool_choice |-> Null, thinking |-> Null, response_format |-> Null, extra |-> <<>>]

-----------------------------------------------------------------------------
CallIds(items) == {it.id : it \in ToSet(OfType(items, {"tool_call"}))}

(* The items before item j of message i *)
Before(messages, i, j) ==
  FlattenSeq([k \in 1 .. i - 1 |-> messages[k].items]) \o SubSeq(messages[i].items, 1, j - 1)

Valid(req) ==
  LET ms == req.messages IN
  /\ ms # <<>>
  /\ req.max_tokens # 0
  /\ \A i \in DOMAIN ms : ms[i].items # <<>> \/ ms[i].role = "system"
  /\ \A i \in DOMAIN ms : \A j \in DOMAIN ms[i].items :
        ms[i].items[j].type = "tool_result"
          => ms[i].items[j].tool_call_id \in CallIds(Before(ms, i, j))

-----------------------------------------------------------------------------
(* Results: what a fallible function of the crate returns *)
Ok(x) == [ok |-> TRUE, value |-> x]
Err(e) == [ok |-> FALSE, error |-> e]

Error(kind) == [kind |-> kind]
BadRequest == Err(Error("BadRequest"))

(* A function that panics returns nothing at all *)
Panic == Err(Error("Panic"))

Validated(req) == IF Valid(req) THEN Ok(req) ELSE BadRequest
=============================================================================
