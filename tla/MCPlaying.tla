----------------------------- MODULE MCPlaying -----------------------------
(***************************************************************************)
(* The game together with the messages it sends.  What is said of messages  *)
(* does not depend on the state: TLC looks at it once, in the initial one.  *)
(***************************************************************************)
EXTENDS Playing, Messages

(* Inputs: each message a phone can write, in each layout the parser knows *)
AllRequests ==
  {RequestOf(MakeCast(type, size), threshold) :
     type \in CastType, size \in 0 .. MaxSize,
     threshold \in 0 .. MaxThreshold \cup {NoCount}}

AllResponses ==
  UNION {{GenerateResponse(r, result) : result \in GenerateResult(r.cast)} :
           r \in AllRequests}

AllMessages ==
  {HelloOf("mac")} \cup {OfferOf("mac", round) : round \in 0 .. UINT_MAX}
  \cup AllRequests \cup AllResponses

(* White space between tags; comments anywhere; a declaration and comments in front. *)
Decorated(tokens) ==
  {tokens, <<Mark("comment")>> \o tokens,
   <<Mark("declaration"), Mark("gap"), Mark("comment"), Mark("comment")>> \o tokens}
  \cup {InsertAt(tokens, i, Mark("comment")) : i \in 2 .. Len(tokens)}
  \cup {InsertAt(tokens, i, Mark("gap")) :
          i \in {j \in 2 .. Len(tokens) :
                   "content" \notin {tokens[j - 1].kind, tokens[j].kind}}}

(* A message of exactly MAX_BUFFER_SIZE is sent with the argument that follows it. *)
Overrun(tokens) ==
  {tokens, Append(tokens, Token("content", "", NoAttributes, Word("mac")))}

-----------------------------------------------------------------------------
(***************************************************************************)
(* What a phone writes every phone reads as the same message, however the   *)
(* document is laid out and whatever follows it in its buffer.  The one     *)
(* exception: an offer of a round above INT_MAX is refused, not misread.    *)
(***************************************************************************)
MessagesReadBack ==
  Init => \A m \in AllMessages :
    \A tokens \in UNION {Overrun(t) : t \in Decorated(Serialize(m))} :
      Deserialize(tokens) = IF m.is = "Offer" /\ m.round > INT_MAX THEN Thrown ELSE m

(***************************************************************************)
(* Whatever the dice show, the response to a request, by way of two         *)
(* documents, answers the request its phone remembers, and no request for   *)
(* dice of another type or number, or that differs in having a threshold.   *)
(***************************************************************************)
AnswersMatch ==
  Init => \A request \in AllRequests :
    LET asked == Deserialize(Serialize(request))
    IN \A result \in GenerateResult(asked.cast) :
         LET answer == Deserialize(Serialize(GenerateResponse(asked, result)))
         IN /\ answer.is = "Response"
            /\ \A other \in AllRequests :
                 IsAnswer(answer, other) <=>
                   /\ other.cast = request.cast
                   /\ other.threshold = NoCount <=> request.threshold = NoCount

(***************************************************************************)
(* A cast that is shown is shown with all its dice, if none has values of   *)
(* three digits; so is every result that fits into a message, which Java    *)
(* moreover reads without what follows it, unless more than 38 dice of D100  *)
(* show 100.  What can be sent can be shown.                                *)
(***************************************************************************)
ResultsShownWhole ==
  Init => \A size \in 0 .. MaxShown + 1 : \A digits \in size .. 3 * size :
    LET text     == CastLength(size, digits)
        cmd      == ShowCommand(size)
        sendable == IsSendable(ResponseLength(size, digits))
    IN /\ sendable => size <= MaxShown
       /\ size <= MaxShown /\ digits <= 2 * size => Kept(cmd, 1, text) = text
       /\ sendable /\ digits <= 2 * size + 38 => text < BufferSize(cmd, 1) - 1

=============================================================================
