---------------------------- MODULE ReplyReading ----------------------------
(***************************************************************************)
(* How a reply of a language model is read: ai_decision._extract_json with *)
(* _strip_fences, _scan_blocks, _top_level_spans and _repair_truncated,    *)
(* then parse_verdict for the verdict about one coin, or                   *)
(* news_analysis._validate for the analysis of a news event.  The model    *)
(* writes token by token and may be cut off anywhere; its object may come  *)
(* fenced, wrapped in prose, or inside an envelope.                        *)
(*                                                                         *)
(* Tokens: the brackets and the comma; "q" a quote, "b" a backslash, "f" a *)
(* code fence, "w" any other text; the complete members "L" and "S"        *)
(* (signal LONG, SHORT), "D" (a decision or an action), "C" (confidence),  *)
(* "s" (summary, direction and strength), "i" (interpretation), "r"        *)
(* (key_risk), "m" (the three horizons); the keys "h" (horizons), "e" (an  *)
(* envelope key) and "k" (any other).  A member or a key holds an even     *)
(* number of quotes and no bracket, so that scanning over it changes       *)
(* nothing, and what a cut leaves of one is text.                          *)
(***************************************************************************)
EXTENDS Integers, Sequences, FiniteSets, SequencesExt, FiniteSetsExt

CONSTANTS
    Objects,    \* [kind, text, means]: what the model may want to say
    Asides,     \* prose before the object whose quotes and brackets pair up
    Noises,     \* an object of another kind before it
    Unclosed,   \* prose before it with a quote or a brace that is never closed
    Tails       \* what may follow the object

ASSUME ReplyAssumption ==
    /\ Objects \subseteq [kind : {"verdict", "news"}, text : Seq(STRING),
                          means : (SUBSET STRING) \ {{}}]
    /\ \A p \in Asides \cup Noises \cup Unclosed \cup Tails : p \in Seq(STRING)

VARIABLES
    reply,      \* [object, before, after]: the whole of it
    written,    \* how many tokens of it the model wrote
    reading     \* the members read from it, {} for a failed reading

replyVars == <<reply, written, reading>>

Nothing == [kind |-> "none", text |-> << >>, means |-> {}]
Silence == [object |-> Nothing, before |-> << >>, after |-> << >>]
Unread == {"unread"}

Whole(r) == r.before \o r.object.text \o r.after
Text == SubSeq(Whole(reply), 1, written)

Members == {"L", "S", "D", "C", "s", "i", "r", "m"}
Keys == {"h", "e", "k"}

LBrace == "{"
RBrace == "}"
LBracket == "["
RBracket == "]"
Comma == ","

-----------------------------------------------------------------------------
(* Scanning.                                                               *)

Stripped(text, t) == IF t = "f" THEN text ELSE Append(text, t)

Stripping(text) ==
    LET at[n \in 0..Len(text)] ==
            IF n = 0 THEN << >> ELSE Stripped(at[n - 1], text[n])
    IN at

Strip(text) == Stripping(text)[Len(text)]

\* in_str and esc after token t.
AfterUnescaped(mode, t) ==
    IF t = "q" THEN (IF mode = "out" THEN "in" ELSE "out") ELSE mode

After(mode, t) ==
    CASE mode = "out" -> IF t = "q" THEN "in" ELSE "out"
      [] mode = "esc" -> "in"
      [] mode = "in"  -> CASE t = "b" -> "esc" [] t = "q" -> "out" [] OTHER -> "in"

\* _top_level_spans counts one kind of bracket and ignores a closer without an
\* opener; _repair_truncated counts both kinds and every closer.
Spanning(trustQuotes) ==
    [quotes |-> trustQuotes, opens |-> {LBrace}, closes |-> {RBrace}, floored |-> TRUE]
Trusting == Spanning(TRUE)
Ignoring == Spanning(FALSE)
Repairing ==
    [quotes |-> TRUE, opens |-> {LBrace, LBracket}, closes |-> {RBrace, RBracket}, floored |-> FALSE]

Unscanned == [mode |-> "out", depth |-> 0]

Scanned(rule, s, t) ==
    [mode  |-> IF rule.quotes THEN After(s.mode, t) ELSE s.mode,
     depth |-> IF s.mode # "out" THEN s.depth
               ELSE CASE t \in rule.opens                                   -> s.depth + 1
                      [] t \in rule.closes /\ (rule.floored => s.depth # 0) -> s.depth - 1
                      [] OTHER                                              -> s.depth]

\* The mode and the depth after each token; after no token, those of the start.
Scan(rule, text) ==
    LET at[n \in 0..Len(text)] ==
            IF n = 0 THEN Unscanned ELSE Scanned(rule, at[n - 1], text[n])
    IN at

-----------------------------------------------------------------------------
(* json.loads, as far as tokens tell.                                      *)

\* The parser reads a token at a time: it wants a value, the first or a further
\* item of what is open, what follows an item, or the rest of a string.
Parser(open, want) == [open |-> open, want |-> want]
Opens == Parser(<< >>, "value")
Bad == Parser(<< >>, "bad")

Closed(open) == Parser(open, IF open = << >> THEN "done" ELSE "after")

Closing == {<<LBrace, RBrace>>, <<LBracket, RBracket>>}
Member == {LBrace} \X Members
Key == {LBrace} \X Keys

Parse(p, t) ==
    LET within == IF p.open = << >> THEN "none" ELSE Last(p.open)
        item == p.want \in {"first", "item"}
        value == p.want = "value" \/ (item /\ within = LBracket)
    IN CASE p.want = "escaped"                 -> Parser(p.open, "string")
         [] p.want = "string" /\ t = "b"       -> Parser(p.open, "escaped")
         [] p.want = "string" /\ t = "q"       -> Closed(p.open)
         [] p.want = "string" /\ t \notin {"b", "q"} -> p
         [] value /\ t = "q"                   -> Parser(p.open, "string")
         [] value /\ t \in {LBrace, LBracket}  -> Parser(Append(p.open, t), "first")
         [] item /\ <<within, t>> \in Member   -> Parser(p.open, "after")
         [] item /\ <<within, t>> \in Key      -> Parser(p.open, "value")
         [] p.want = "after" /\ t = Comma      -> Parser(p.open, "item")
         [] /\ p.want \in {"first", "after"}
            /\ <<within, t>> \in Closing       -> Closed(Front(p.open))
         [] OTHER                              -> Bad

Parsed(text) ==
    LET at[n \in 0..Len(text)] ==
            IF n = 0 THEN Opens ELSE Parse(at[n - 1], text[n])
    IN at

Loads(chunk) == Parsed(chunk)[Len(chunk)].want = "done"

\* The tokens of the outermost object, strings left out.
TopLevel(value, at) ==
    {n \in DOMAIN value : at[n - 1].mode = "out" /\ at[n].depth = 1}

TopMembers(value) == {value[n] : n \in TopLevel(value, Scan(Repairing, value))}

-----------------------------------------------------------------------------
(* _scan_blocks and _extract_json.                                         *)

IsVerdictObject(value) == TopMembers(value) \cap {"L", "S", "D"} # {}

IfLoads(value) == IF Loads(value) THEN value ELSE << >>

\* _repair_truncated: keep what ends with the last member that was closed.
KeptUpTo(chunk, ends) ==
    IF ends = {} THEN << >> ELSE SubSeq(chunk, 1, Max(ends)) \o <<RBrace>>

Repaired(chunk) ==
    LET at == Scan(Repairing, chunk) IN
    KeptUpTo(chunk, {n \in DOMAIN chunk : at[n].depth = 1 /\ at[n - 1].depth = 2})

\* An object without its end runs to the end of the text.
JsonOf(text, n, ends) ==
    IF ends # {} THEN IfLoads(SubSeq(text, n, Min(ends)))
    ELSE LET rest == SubSeq(text, n, Len(text))
         IN IF Loads(rest) THEN rest ELSE IfLoads(Repaired(rest))

\* The objects at the top level of the text.
Starts(text, at) == {n \in DOMAIN text : at[n].depth = 1 /\ at[n - 1].depth = 0}

JsonAt(text, at, n) == JsonOf(text, n, {e \in n..Len(text) : at[e].depth = 0})

\* Those that hold anything.
Holding(text, at) ==
    {n \in Starts(text, at) : JsonAt(text, at, n) \notin {<< >>, <<LBrace, RBrace>>}}

Verdicts(text, at) == {n \in Holding(text, at) : IsVerdictObject(JsonAt(text, at, n))}

\* What looks like a verdict goes before what is any object.
Found(text, at) ==
    IF Verdicts(text, at) # {} THEN JsonAt(text, at, Min(Verdicts(text, at)))
    ELSE IF Holding(text, at) # {} THEN JsonAt(text, at, Min(Holding(text, at)))
    ELSE << >>

\* Quotes are ignored only when trusting them finds no object at all.
FoundIn(text) ==
    IF Holding(text, Scan(Trusting, text)) # {}
    THEN Found(text, Scan(Trusting, text))
    ELSE Found(text, Scan(Ignoring, text))

Extracted(text) == FoundIn(Strip(text))

-----------------------------------------------------------------------------
(* The two readers of an object.                                           *)

\* parse_verdict looks into an envelope that holds one object and nothing else.
Inner(value, at, n) ==
    n + 2..Min({k \in n + 2..Len(value) : at[k].depth = 1}) - 1

HoldsOne(value, at, n) ==
    /\ value[n] = "e" /\ value[n + 1] = LBracket
    /\ Inner(value, at, n) # {}
    /\ {k \in Inner(value, at, n) : at[k].depth = 2} = {Max(Inner(value, at, n))}

Envelopes(value, at) == {n \in TopLevel(value, at) : HoldsOne(value, at, n)}

UnwrappedAt(value, at) ==
    LET lone == Envelopes(value, at)
    IN IF lone = {} THEN value
       ELSE SubSeq(value, Min(lone) + 2, Max(Inner(value, at, Min(lone))))

Unwrapped(value) == UnwrappedAt(value, Scan(Repairing, value))

\* A confidence that is not there is 0; a signal that is not there is an error.
VerdictOf(members) ==
    IF members \cap {"L", "S"} = {} THEN {} ELSE members \cap {"L", "S", "C"}

ParseVerdict(value) == VerdictOf(TopMembers(Unwrapped(value)))

\* An analysis needs everything but the key_risk, for which there is a default.
HasHorizons(value, at) ==
    \E n \in TopLevel(value, at) :
        value[n] = "h" /\ value[n + 1] = LBrace /\ value[n + 2] = "m"

Validate(value) ==
    IF {"s", "i"} \subseteq TopMembers(value) /\ HasHorizons(value, Scan(Repairing, value))
    THEN TopMembers(value) \cap {"s", "i", "h", "r"}
    ELSE {}

ReadAs(kind, value) == IF kind = "verdict" THEN ParseVerdict(value) ELSE Validate(value)

-----------------------------------------------------------------------------

ReplyTypeOK ==
    /\ reply.object \in Objects \cup {Nothing}
    /\ written \in 0..Len(Whole(reply))
    /\ reading = Unread \/ reading \subseteq Members \cup Keys

ReplyInit == reply = Silence /\ written = 0 /\ reading = Unread

Prompted ==
    /\ reply = Silence
    /\ \E o \in Objects, p \in Asides \cup Noises \cup Unclosed, t \in Tails :
          reply' = [object |-> o, before |-> p, after |-> t]
    /\ UNCHANGED <<written, reading>>

\* A reply that is never finished was cut at max_tokens.
Write ==
    /\ reading = Unread
    /\ written < Len(Whole(reply))
    /\ written' = written + 1
    /\ UNCHANGED <<reply, reading>>

Read ==
    /\ reply # Silence /\ reading = Unread
    /\ reading' = ReadAs(reply.object.kind, Extracted(Text))
    /\ UNCHANGED <<reply, written>>

ReplyNext == Prompted \/ Write \/ Read

ReplySpec == ReplyInit /\ [][ReplyNext]_replyVars

-----------------------------------------------------------------------------
(* Properties.                                                             *)

\* Verdicts are looked for first, at the top level of the text: an analysis and
\* an envelope are passed over for one that follows them.
PassedOver(r) ==
    /\ "S" \in ToSet(r.after)
    /\ r.object.kind = "news" \/ "e" \in ToSet(r.object.text)

\* The scan that ignores quotes closes the object at a brace in a string, and
\* takes up again at an object so deep that the repair has not kept it yet.
Resurfaces(text) ==
    \E m, n \in DOMAIN text :
        /\ m < n /\ text[m] = RBrace /\ text[n] = LBrace
        /\ Scan(Repairing, text)[m - 1].mode = "in" /\ Scan(Repairing, text)[n - 1].mode = "out"
        /\ Scan(Repairing, text)[n].depth > 2

(* Wherever a reply is cut and whatever prose surrounds it, what is read   *)
(* is part of what the model meant or nothing: never a signal from an      *)
(* object nested in it, from an example after it, or from the inside of a  *)
(* string (ai_decision.py:533-625).  The code makes three exceptions:      *)
(* after a quote or a brace that is never closed, and in a cut reply with  *)
(* a brace in a string, the strings may be scanned as if they were not     *)
(* quoted; and what is no verdict itself is passed over for a verdict that *)
(* follows.                                                                *)
NothingElseRead ==
    reading # Unread =>
        \/ reading \subseteq reply.object.means
        \/ reply.before \in Unclosed
        \/ written < Len(Whole(reply)) /\ Resurfaces(reply.object.text)
        \/ PassedOver(reply)

(* A whole reply behind harmless prose is read in full, fenced or not.     *)
AllIsRead ==
    /\ reading # Unread
    /\ written = Len(Whole(reply))
    /\ reply.before \in Asides
    /\ ~PassedOver(reply)
    => reading = reply.object.means

(* The two together: a reply is read as it was meant, or asked for again.  *)
ReadAsMeant == NothingElseRead /\ AllIsRead
=============================================================================
