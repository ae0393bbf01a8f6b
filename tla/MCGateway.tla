------------------------------ MODULE MCGateway ------------------------------
(* An instance of Gateway for TLC. *)
EXTENDS Gateway, TLC

CONSTANTS boss, ann, bob  \* people

Row == [NoKey EXCEPT !.status = "active"]
Superseded == [Row EXCEPT !.hash = 2, !.prev = 1, !.until = 1, !.expires = 2]

\* Two may come for the last seat, one of them unknown to the directory; or one is new to
\* the company, and the key is one that expires and has just been rotated.
MCStarts ==
  {[directory |-> boss :> "enabled" @@ ann :> "enabled" @@ bob :> "local",
    user |-> boss :> "active" @@ ann :> "none" @@ bob :> "none",
    admins |-> {}, session |-> {<<0, boss>>},
    key |-> boss :> Row @@ ann :> NoKey @@ bob :> NoKey],
   [directory |-> boss :> "enabled" @@ ann :> "enabled" @@ bob :> "none",
    user |-> boss :> "active" @@ ann :> "active" @@ bob :> "none",
    admins |-> {ann}, session |-> {<<0, ann>>},
    key |-> boss :> Superseded @@ ann :> NoKey @@ bob :> NoKey]}

Tier(max, input, cached, output, reasoning) ==
  [max |-> max, input |-> input, cached |-> cached, output |-> output, reasoning |-> reasoning]

\* Two versions, two tiers, no more than so many tokens, and a price that is a rebate.
MCPrices ==
  "tiered" :> <<[from |-> 0, tiers |-> <<Tier(2, 10, 5, 15, 20), Tier(0, 17, 9, 15, 15)>>],
                [from |-> 2, tiers |-> <<Tier(0, 30, 15, 25, 25)>>]>>
    @@ "short" :> <<[from |-> 1, tiers |-> <<Tier(2, 7, -3, 7, 7)>>]>>

Used(input, cached, output, reasoning) ==
  [input |-> input, cached |-> cached, output |-> output, reasoning |-> reasoning]
Frame(content, model, usage) == [content |-> content, model |-> model, usage |-> usage]
Stream(frames, ends) == [kind |-> "ok", stream |-> TRUE, frames |-> frames, ends |-> ends]
Plain(model, usage, ends) == [kind |-> "ok", stream |-> FALSE, frames |-> <<Frame("delta", model, usage)>>, ends |-> ends]

\* Streams with the usage apart, with the content, with text outside the delta, twice, not at
\* all, broken off; bodies within and beyond the first tier, of a price not yet in effect, of
\* no model, too large.
MCAnswers ==
  {[kind |-> "none"], [kind |-> "refusal"],
   Stream(<<Frame("delta", "tiered", None), Frame("none", "", Used(2, 1, 3, 1))>>, "eof"),
   Stream(<<Frame("delta", "tiered", Used(1, 0, 1, 0)), Frame("delta", "", Used(3, 1, 2, 2))>>, "cut"),
   Stream(<<Frame("text", "tiered", None), Frame("text", "", Used(1, 0, 2, 0))>>, "eof"),
   Stream(<<Frame("delta", "tiered", None)>>, "eof"),
   Stream(<<Frame("delta", "", None)>>, "cut"), Stream(<<>>, "too_long"),
   Plain("tiered", Used(2, 0, 1, 0), "eof"), Plain("tiered", Used(6, 0, 1, 1), "eof"),
   Plain("short", Used(2, 1, 0, 0), "eof"), Plain("short", Used(3, 0, 0, 0), "eof"),
   Plain("other", Used(1, 0, 0, 0), "eof"), Plain("tiered", Used(1, 2, 0, 0), "eof"),
   Plain("tiered", None, "eof"), Plain("", None, "cut"), Plain("", None, "garbled")}

Body(stream, options) == [readable |-> TRUE, stream |-> stream, options |-> options]

MCRequests ==
  {[readable |-> FALSE, stream |-> FALSE, options |-> "none"], Body(FALSE, "none"),
   Body(TRUE, "none"), Body(TRUE, "stated"), Body(TRUE, "null"), Body(TRUE, "malformed")}
=============================================================================
