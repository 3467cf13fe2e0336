------------------------------ MODULE Surfaces ------------------------------
(***************************************************************************)
(* Joinpoint discovery: how one coarse host joinpoint becomes the          *)
(* joinpoints of its messages, prompt sections, spans and tokens, and how  *)
(* runtime events and ticks become joinpoints                              *)
(* (opencoat_runtime_core/joinpoint/discovery.py, event_map.py and         *)
(* opencoat_runtime_core/copr).                                            *)
(*                                                                         *)
(* A text is a sequence of paragraphs [long, sentences]; a sentence is     *)
(* [words, imperative] with words a sequence.  A joinpoint's id is the     *)
(* tuple <<root, message, kind, index>>, zeros for the root itself.        *)
(* `auto` is the JoinpointAutomation configuration.                        *)
(***************************************************************************)
EXTENDS Weaving

SentenceWords(sentences) == UNION {ToSet(s.words) : s \in ToSet(sentences)}
TextWords(text) == UNION {SentenceWords(p.sentences) : p \in ToSet(text)}

-----------------------------------------------------------------------------
(* copr/span_segmenter.py and tokenizer.py: a paragraph below 200          *)
(* characters is one span, a longer one is a span per sentence.            *)
_make_span(sentences) ==
  [words |-> SentenceWords(sentences),
   semantic |-> IF sentences[1].imperative THEN "imperative" ELSE "sentence"]

segment(text) ==
  LET SpansOf(p) == IF p.long THEN [j \in DOMAIN p.sentences |-> _make_span(<<p.sentences[j]>>)]
                    ELSE <<_make_span(p.sentences)>>
  IN  FlattenSeq([i \in DOMAIN text |-> SpansOf(text[i])])

tokenize(text) ==
  FlattenSeq([i \in DOMAIN text |->
    FlattenSeq([j \in DOMAIN text[i].sentences |-> text[i].sentences[j].words])])

-----------------------------------------------------------------------------
(* copr/parser.py.  A raw message has a role, a text, sections and spans,  *)
(* where None stands for a field that is missing or not a list.            *)
_ROLE_TO_MESSAGE_JOINPOINT ==
  [system |-> "system_message", developer |-> "developer_message", user |-> "user_message",
   assistant |-> "assistant_message", tool |-> "tool_message", memory |-> "memory_message",
   retrieved_context |-> "retrieved_context"]

_parse_message(item, auto) ==
  [role     |-> IF item.role \in DOMAIN _ROLE_TO_MESSAGE_JOINPOINT THEN item.role ELSE "user",
   text     |-> item.text,
   sections |-> IF item.sections = None THEN <<>>
                ELSE SelectSeq(item.sections, LAMBDA s : s.path # None),
   spans    |-> CASE item.spans # None -> SelectSeq(item.spans, LAMBDA s : s.words # {})
                  [] item.spans = None /\ auto.spans -> segment(item.text)
                  [] OTHER -> <<>>]

parse(items, auto) == [i \in DOMAIN items |-> _parse_message(items[i], auto)]

\* An explicit copr is taken as it is; messages that are no list raise.
_copr_from_payload(payload, auto) ==
  CASE "copr" \in DOMAIN payload -> payload.copr
    [] "copr" \notin DOMAIN payload /\ "messages" \in DOMAIN payload -> parse(payload.messages, auto)
    [] OTHER -> None

UnparsableSurface(payload) ==
  /\ "copr" \notin DOMAIN payload
  /\ "messages" \in DOMAIN payload
  /\ payload.messages = None

-----------------------------------------------------------------------------
(* joinpoint/discovery.py                                                  *)
_child_joinpoint(parent, path, level, name, words, payload) ==
  [id |-> <<parent.id[1]>> \o path, name |-> name, level |-> level, words |-> words,
   payload |-> payload]

\* Per message: itself, its sections, its spans, its tokens.  An empty
\* section falls back to the message's text.
MessageJoinpoints(parent, copr, m, auto) ==
  LET msg    == copr[m]
      text   == TextWords(msg.text)
      spans  == IF msg.spans = <<>> /\ auto.spans THEN segment(msg.text) ELSE msg.spans
      tokens == IF auto.tokens THEN tokenize(msg.text) ELSE <<>>
      kept   == IF auto.tokenCap = 0 THEN tokens
                ELSE SubSeq(tokens, 1, Min({Len(tokens), auto.tokenCap}))
  IN  <<_child_joinpoint(parent, <<m, 0, 0>>, "message", _ROLE_TO_MESSAGE_JOINPOINT[msg.role],
                         text, [role |-> msg.role])>>
      \o [i \in DOMAIN msg.sections |->
            LET own == msg.sections[i].words
            IN  _child_joinpoint(parent, <<m, 1, i>>, "prompt_section", msg.sections[i].path,
                                 IF own = {} THEN text ELSE own, [path |-> msg.sections[i].path])]
      \o [i \in DOMAIN spans |->
            _child_joinpoint(parent, <<m, 2, i>>, "semantic_span", "semantic_span",
                             spans[i].words, [semantic_type |-> spans[i].semantic])]
      \o [i \in DOMAIN kept |->
            _child_joinpoint(parent, <<m, 3, i>>, "token", "token", {kept[i]},
                             [token |-> kept[i]])]

discover_from_copr(copr, parent, auto) ==
  LET all == FlattenSeq([m \in DOMAIN copr |-> MessageJoinpoints(parent, copr, m, auto)])
  IN  SubSeq(all, 1, Min({Len(all), auto.maxDiscovered}))

expand(parent, auto) ==
  LET copr == _copr_from_payload(parent.payload, auto)
  IN  IF copr = None THEN <<parent>> ELSE <<parent>> \o discover_from_copr(copr, parent, auto)

\* The text of the meta joinpoint is the list of the injected concerns' ids.
IdWord(id) == <<"c1", "c2", "c3", "c4", "c5">>[id]

adviceexecution_joinpoint(parent, activeIds) ==
  _child_joinpoint(parent, <<0, 4, 0>>, "lifecycle", "adviceexecution",
                   {IdWord(id) : id \in activeIds}, [active |-> activeIds])

runtime_tick_joinpoint(n, candidateCount) ==
  [id |-> <<n, 0, 5, 0>>, name |-> "runtime_tick", level |-> "runtime", words |-> {"runtime_tick"},
   payload |-> [candidate_count |-> candidateCount]]

EVENT_TYPE_TO_JOINPOINT ==
  [tool_result |-> "after_tool_call", feedback |-> "on_feedback", error |-> "on_error",
   env_signal |-> "on_error", memory_write |-> "after_memory_write"]

\* An event of an unknown type gives no joinpoint.
joinpoint_from_event(event) ==
  IF event.type \notin DOMAIN EVENT_TYPE_TO_JOINPOINT THEN None
  ELSE [id |-> <<event.id, 0, 6, 0>>, name |-> EVENT_TYPE_TO_JOINPOINT[event.type],
        level |-> "lifecycle", words |-> event.words, payload |-> event.payload]
=============================================================================
