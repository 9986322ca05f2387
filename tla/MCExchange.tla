----------------------------- MODULE MCExchange -----------------------------
(***************************************************************************)
(* The messages with which TLC checks Exchange: upper case letters, empty  *)
(* and longer values, urls with and without a query; requests the samples  *)
(* answer at once and later, cannot decode, or do not serve; with and      *)
(* without a length, trailers, an id that is a uuid or is none, and keeping*)
(* the connection or not.                                                  *)
(***************************************************************************)
EXTENDS Exchange

CONSTANTS a, A

MCChars == {a, A, Slash, Question}
MCLower == [c \in MCChars |-> IF c = A THEN a ELSE c]

MCRest == <<Slash, a>>
MCIdHeader == <<a>>
MCRandom == <<A, A>>
MCUuids == {MCRandom, <<a, a>>}
MCGreeting == <<a, A>>
Soon == <<a>>
Later == <<A, a>>
MCDecoded == [b \in {Soon, Later} |->
  IF b = Soon THEN [message |-> <<A>>, delay |-> "none"] ELSE [message |-> <<A>>, delay |-> "some"]]

MCObjects == {Soon, Later, <<a, A, a>>}

Empty == [method |-> "POST", url |-> MCRest, headers |-> <<>>, body |-> <<>>,
          sized |-> TRUE, trailers |-> <<>>, keep |-> TRUE]
Prompt == [Empty EXCEPT !.url = MCRest \o <<Question, Slash, a>>, !.body = Soon,
                        !.headers = <<[name |-> <<A>>, value |-> <<a, A>>],
                                      [name |-> <<A, a>>, value |-> <<>>]>>]
Slow == [Empty EXCEPT !.body = Later, !.sized = FALSE,
                      !.headers = <<[name |-> <<a, a>>, value |-> <<a, a, A>>],
                                    [name |-> <<a>>, value |-> <<A>>]>>,
                      !.trailers = <<[name |-> <<a, A>>, value |-> <<a>>]>>]
Spoilt == [Empty EXCEPT !.body = <<a, A, a>>, !.keep = FALSE]
Fetch == [Empty EXCEPT !.method = "GET", !.keep = FALSE]
Elsewhere == [Empty EXCEPT !.url = MCRest \o MCRest, !.sized = FALSE]

MCMessages == {Empty, Prompt, Slow, Spoilt, Fetch, Elsewhere}
MCMethods == {"GET", "POST"}
===========================================================================
