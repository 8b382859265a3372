----------------------------- MODULE MCServices -----------------------------
(***************************************************************************)
(* Small instances of the services around the scan, checked in one run:    *)
(* articles, feeds, providers, replies and bars, and a decider.            *)
(***************************************************************************)
EXTENDS Services, TLC

CONSTANTS official, rival, other, denial, btc, eth

\* Four articles about one hack: an official one, two that join it by the
\* anchor alone, and a denial of it.
NewsClaims == official :> {1, 2} @@ rival :> {1, 3, 4, 5} @@
              other :> {1, 6, 7, 8} @@ denial :> {1, 2, 3}
NewsDomain == official :> "sec.gov" @@ rival :> "coindesk.com" @@
              other :> "cointelegraph.com" @@ denial :> "cointelegraph.com"
TwoFeeds == << <<official, other>>, <<rival, denial>> >>
AtOnce == official :> 0 @@ rival :> 0 @@ other :> 0 @@ denial :> 1
Spread == official :> 0 @@ rival :> 1 @@ other :> 2 @@ denial :> 2
AtOnceOrSpread == {AtOnce, Spread}
TwoProvidersOneGateway == <<"gateway", "gateway">>

\* What a model may say about a coin to buy, with members that hold a brace in
\* a string or the opposite verdict in an object, and about a news event.
Verdict(text, means) == [kind |-> "verdict", text |-> text, means |-> means]
Analysis(text) == [kind |-> "news", text |-> text, means |-> {"s", "h", "i", "r"}]
ReplyObjects ==
    {Verdict(<<"{", "L", ",", "C", "}">>, {"L", "C"}),
     Verdict(<<"{", "k", "q", "w", "}", "w", "q", ",", "k", "{", "S", "}", ",",
               "L", "}">>, {"L"}),
     Verdict(<<"{", "k", "q", "b", "q", "}", "w", "q", ",", "k", "{", "S", "}",
               ",", "L", "}">>, {"L"}),
     Verdict(<<"{", "L", ",", "k", "[", "{", "S", "}", ",", "{", "S", "}", "]",
               ",", "C", "}">>, {"L", "C"}),
     Verdict(<<"{", "k", "q", "{", "w", "}", "w", "q", ",", "C", ",", "L", "}">>,
             {"L", "C"}),
     Verdict(<<"{", "e", "[", "{", "k", "{", "S", "}", ",", "L", ",", "C", "}",
               "]", "}">>, {"L", "C"}),
     Verdict(<<"{", "k", "{", "k", "q", "w", "}", "}", "w", "q", ",", "k", "{", "S",
               "}", "}", ",", "L", "}">>, {"L"}),
     Analysis(<<"{", "s", ",", "h", "{", "m", "}", ",", "i", ",", "r", "}">>),
     Analysis(<<"{", "s", ",", "i", ",", "h", "{", "m", "}", ",", "r", "}">>)}
ReplyAsides ==
    {<< >>, <<"f">>, <<"w", "{", "w", "}">>, <<"q", "w", "{", "q">>,
     <<"}", "w", "{", "}">>, <<"w", "[", "f">>}
ReplyNoises == {<<"{", "C", "}">>, <<"{", "D", "}">>}
ReplyUnclosed == {<<"w", "q">>, <<"w", "{">>, <<"{", "w", "{", "C", "}">>}
ReplyTails ==
    {<< >>, <<"f">>, <<"w", "{", "S", "}">>, <<"q", "w", "}">>,
     <<"w", "{", "s", ",", "r", "}">>}

\* A decider that looks at the last candle of either timeframe.
Shape(h, l, c) == [h |-> h, l |-> l, c |-> c]
ReplayShapes == {Shape(2, -1, 2), Shape(1, -2, -2), Shape(3, -3, 1), Shape(1, -1, 0)}
Trade(side, quality, entry, sign) ==
    [decision |-> side, quality |-> quality, entry |-> entry,
     sl |-> entry - 2 * sign, tp |-> entry + 3 * sign]
FollowsHtf(frames) ==
    LET now == Last(frames.entry)
        quality == IF now.c # now.o THEN 80 ELSE 55
        rise == IF frames.htf = << >> THEN 0 ELSE Last(frames.htf).c - Last(frames.htf).o
    IN CASE rise > 0 -> Trade("LONG", quality, now.c, 1)
         [] rise < 0 -> Trade("SHORT", quality, now.c, -1)
         [] OTHER    -> Trade("NO_TRADE", quality, now.c, 0)
=============================================================================
