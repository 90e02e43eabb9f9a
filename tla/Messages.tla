------------------------------ MODULE Messages ------------------------------
(***************************************************************************)
(* The messages phones exchange (dice/serializer.cpp), the XML they are     *)
(* written in (dice/xmlparser.hpp), and what the dice engine and            *)
(* StatePlaying make of a request (dice/engine.cpp, stateplaying.cpp).      *)
(*                                                                         *)
(* A document is a sequence of the tokens Tokenize and RemoveInsideComments *)
(* leave: tags, contents, comments, the declaration, gaps of white space,   *)
(* broken tags.  A text is a word or a numeral.  An attribute that is not   *)
(* there, too few values or a text that is no number throw: Thrown.         *)
(***************************************************************************)
EXTENDS Integers, CommandArguments

CONSTANTS
  CastType,    \* types of dice to cast
  MaxSize,     \* bound: dice of one cast
  MaxThreshold,
  IntBits,     \* the width of int, the type rounds are read as
  NoCount      \* an optional that is not set

ASSUME MessagesAssumption ==
  /\ CastType \subseteq {"D4", "D6", "D8", "D10", "D12", "D16", "D20", "D100"}
  /\ MaxSize \in Nat /\ MaxThreshold \in Nat /\ IntBits \in Nat \ {0}
  /\ NoCount \notin Nat

Word(w)    == [word |-> w]
Numeral(n) == [number |-> n]
IsNumber(text) == DOMAIN text = {"number"}

(* What std::to_string gives for a uint32_t and std::stoi still takes. *)
UINT_MAX == 2 ^ IntBits - 1
INT_MAX  == 2 ^ (IntBits - 1) - 1

-----------------------------------------------------------------------------
(* XML: elements and tokens                                                  *)

(* A content of several pieces is kept as the sequence of them. *)
Element(name, attrs, content, children) ==
  [name |-> name, attrs |-> attrs, content |-> content, children |-> children]

NoAttributes == [a \in {} |-> Word("")]

Token(kind, name, attrs, text) ==
  [kind |-> kind, name |-> name, attrs |-> attrs, text |-> text]

Mark(kind) == Token(kind, "", NoAttributes, Word(""))

(* operator<<, for an element whose children have no children of their own *)
PrintLeaf(e) ==
  IF e.content = <<>> THEN <<Token("single", e.name, e.attrs, Word(""))>>
  ELSE <<Token("open", e.name, e.attrs, Word("")),
         Token("content", "", NoAttributes, e.content[1]),
         Token("close", e.name, NoAttributes, Word(""))>>

PrintTree(e) ==
  IF e.children = <<>> THEN PrintLeaf(e)
  ELSE <<Token("open", e.name, e.attrs, Word(""))>>
       \o FlattenSeq([i \in DOMAIN e.children |-> PrintLeaf(e.children[i])])
       \o <<Token("close", e.name, NoAttributes, Word(""))>>

WithChild(e, child)  == [e EXCEPT !.children = Append(@, child)]
WithContent(e, text) == [e EXCEPT !.content = Append(@, text)]

(* Another element on top of the stack *)
OnTop(stack, e) == Append(Front(stack), e)

(* The element on top becomes the last child of the one below. *)
Pop(stack) == OnTop(Front(stack), WithChild(Last(Front(stack)), Last(stack)))

Opened(token) == Element(token.name, token.attrs, <<>>, <<>>)

(* What BuildElementTree has read; failed: it throws. *)
Read(stack, closed, failed) == [stack |-> stack, closed |-> closed, failed |-> failed]

(***************************************************************************)
(* One round of the loop of BuildElementTree.  Names of closing tags are    *)
(* not compared.  Nothing is read behind the end of the root; a broken tag   *)
(* before it fails the document.                                            *)
(***************************************************************************)
BuildStep(state, token) ==
  LET stack == state.stack
      on(s) == Read(s, FALSE, FALSE)
  IN IF state.closed \/ state.failed THEN state
     ELSE CASE token.kind \in {"open", "declaration"} -> on(Append(stack, Opened(token)))
            [] token.kind = "single" ->
                 on(OnTop(stack, WithChild(Last(stack), Opened(token))))
            [] token.kind = "close" ->
                 IF Len(stack) = 1 THEN Read(stack, TRUE, FALSE) ELSE on(Pop(stack))
            [] token.kind = "content" ->
                 on(OnTop(stack, WithContent(Last(stack), token.text)))
            [] token.kind = "comment" -> state
            [] token.kind = "broken" -> Read(stack, FALSE, TRUE)

Start(token) == Read(<<Opened(token)>>, FALSE, FALSE)

(* BuildElementTree: the root stays open even if its tag closes itself. *)
Build(tokens) ==
  LET state[i \in 1 .. Len(tokens)] ==
        IF i = 1 THEN Start(tokens[1]) ELSE BuildStep(state[i - 1], tokens[i])
      stack == state[Len(tokens)].stack
      tree[i \in 1 .. Len(stack)] ==
        IF i = Len(stack) THEN stack[i] ELSE WithChild(stack[i], tree[i + 1])
  IN [failed |-> state[Len(tokens)].failed, root |-> tree[1]]

(* RemoveGaps *)
WithoutGaps(tokens) ==
  LET kept[i \in 0 .. Len(tokens)] ==
        IF i = 0 THEN <<>>
        ELSE IF tokens[i].kind = "gap" THEN kept[i - 1] ELSE Append(kept[i - 1], tokens[i])
  IN kept[Len(tokens)]

(* RemoveLeadingComments *)
WithoutLeadingComments(tokens) ==
  SubSeq(tokens, Min({i \in DOMAIN tokens : tokens[i].kind # "comment"}), Len(tokens))

(* Mutant: comments behind the declaration are not expected. *)
DocumentMutantComment(tokens) ==
  LET text == WithoutLeadingComments(WithoutGaps(tokens))
      body == IF Head(text).kind = "declaration" THEN Tail(text) ELSE text
  IN IF Head(text).kind = "content" THEN [failed |-> TRUE, root |-> Opened(Head(text))]
     ELSE Build(body)

(* The constructor of Document *)
Document(tokens) ==
  LET text == WithoutLeadingComments(WithoutGaps(tokens))
      body == IF Head(text).kind = "declaration"
              THEN WithoutLeadingComments(Tail(text)) ELSE text
  IN IF Head(text).kind = "content" THEN [failed |-> TRUE, root |-> Opened(Head(text))]
     ELSE Build(body)

(* GetChild(name): the first of that name *)
Named(e, name)    == {i \in DOMAIN e.children : e.children[i].name = name}
GetChild(e, name) == e.children[Min(Named(e, name))]

-----------------------------------------------------------------------------
(* Messages                                                                  *)

MakeCast(type, size) == [type |-> type, values |-> [i \in 1 .. size |-> 0]]

HelloOf(mac)               == [is |-> "Hello", mac |-> mac]
OfferOf(mac, round)        == [is |-> "Offer", mac |-> mac, round |-> round]
RequestOf(cast, threshold) == [is |-> "Request", cast |-> cast, threshold |-> threshold]
ResponseOf(cast, count)    == [is |-> "Response", cast |-> cast, successCount |-> count]
Thrown                     == [is |-> "exception"]

(* AddAttribute, for what is set *)
Attributes(cast, optional, value) ==
  [a \in {"type", "size"} \cup (IF value = NoCount THEN {} ELSE {optional}) |->
     CASE a = "type"   -> Word(cast.type)
       [] a = "size"   -> Numeral(Len(cast.values))
       [] a = optional -> Numeral(value)]

Leaf(name, text) == Element(name, NoAttributes, <<text>>, <<>>)

SerializeHello(m)   == Element("Hello", NoAttributes, <<>>, <<Leaf("Mac", Word(m.mac))>>)
SerializeOffer(m)   == Element("Offer", [round |-> Numeral(m.round)], <<>>,
                               <<Leaf("Mac", Word(m.mac))>>)
SerializeRequest(m) == Element("Request", Attributes(m.cast, "successFrom", m.threshold),
                               <<>>, <<>>)

(* Mutant: a count of nothing is taken for no count. *)
SerializeResponseMutantZero(m) ==
  LET count == IF m.successCount = 0 THEN NoCount ELSE m.successCount
  IN Element("Response", Attributes(m.cast, "successCount", count), <<>>,
             [i \in DOMAIN m.cast.values |-> Leaf("Val", Numeral(m.cast.values[i]))])

SerializeResponse(m) ==
  Element("Response", Attributes(m.cast, "successCount", m.successCount), <<>>,
          [i \in DOMAIN m.cast.values |-> Leaf("Val", Numeral(m.cast.values[i]))])

Serialize(m) ==
  PrintTree(CASE m.is = "Hello"    -> SerializeHello(m)
              [] m.is = "Offer"    -> SerializeOffer(m)
              [] m.is = "Request"  -> SerializeRequest(m)
              [] m.is = "Response" -> SerializeResponse(m))

(* The optional attribute: only its absence is caught. *)
Optional(e, name) == IF name \in DOMAIN e.attrs THEN e.attrs[name].number ELSE NoCount

(* type and size, and the optional attribute if it is there, can be read. *)
CastReadable(e, optional) ==
  /\ {"type", "size"} \subseteq DOMAIN e.attrs
  /\ e.attrs["type"] \in {Word(type) : type \in CastType}
  /\ \A a \in {"size", optional} \cap DOMAIN e.attrs : IsNumber(e.attrs[a])

CastSize(e) == e.attrs["size"].number

ParseRequest(e) ==
  IF ~CastReadable(e, "successFrom") THEN Thrown
  ELSE RequestOf(MakeCast(e.attrs["type"].word, CastSize(e)), Optional(e, "successFrom"))

(* Children are read by their index; further ones are ignored. *)
ParseResponse(e) ==
  IF \/ ~CastReadable(e, "successCount")
     \/ Len(e.children) < CastSize(e)
     \/ \E i \in 1 .. CastSize(e) :
          ~(Len(e.children[i].content) = 1 /\ IsNumber(e.children[i].content[1]))
  THEN Thrown
  ELSE LET values == [i \in 1 .. CastSize(e) |-> e.children[i].content[1].number]
       IN ResponseOf([type |-> e.attrs["type"].word, values |-> values],
                     Optional(e, "successCount"))

(* The content of the first child Mac, whatever it is *)
MacOf(e) == LET content == GetChild(e, "Mac").content
            IN IF content = <<>> THEN "" ELSE content[1].word

ParseHello(e) == IF Named(e, "Mac") = {} THEN Thrown ELSE HelloOf(MacOf(e))

(* Rounds are written as uint32_t and read by std::stoi. *)
ParseOffer(e) ==
  IF \/ Named(e, "Mac") = {}
     \/ "round" \notin DOMAIN e.attrs
     \/ ~IsNumber(e.attrs["round"]) \/ e.attrs["round"].number > INT_MAX
  THEN Thrown ELSE OfferOf(MacOf(e), e.attrs["round"].number)

Deserialize(tokens) ==
  LET doc == Document(tokens)
      e   == doc.root
  IN CASE doc.failed                        -> Thrown
       [] ~doc.failed /\ e.name = "Request"  -> ParseRequest(e)
       [] ~doc.failed /\ e.name = "Response" -> ParseResponse(e)
       [] ~doc.failed /\ e.name = "Hello"    -> ParseHello(e)
       [] ~doc.failed /\ e.name = "Offer"    -> ParseOffer(e)
       [] OTHER -> Thrown

-----------------------------------------------------------------------------
(* Dice                                                                      *)

LargestValue ==
  [D4 |-> 4, D6 |-> 6, D8 |-> 8, D10 |-> 10, D12 |-> 12, D16 |-> 16, D20 |-> 20,
   D100 |-> 100]

(* UniformEngine: any values of the type, sorted *)
GenerateResult(cast) ==
  {[cast EXCEPT !.values = v] :
     v \in {s \in [DOMAIN cast.values -> 1 .. LargestValue[cast.type]] :
              \A i, j \in DOMAIN s : i <= j => s[i] <= s[j]}}

GetSuccessCount(cast, threshold) ==
  Cardinality({i \in DOMAIN cast.values : cast.values[i] >= threshold})

(* The result is moved into the response; the count is taken if it was asked for. *)
GenerateResponse(request, result) ==
  ResponseOf(result, IF request.threshold = NoCount THEN NoCount
                     ELSE GetSuccessCount(result, request.threshold))

(* Matches of stateplaying.cpp *)
IsAnswer(response, request) ==
  /\ response.cast.type = request.cast.type
  /\ Len(response.cast.values) = Len(request.cast.values)
  /\ (response.successCount = NoCount) = (request.threshold = NoCount)

-----------------------------------------------------------------------------
(* How long a response is, with "digits" digits in the values of "size" dice *)

Digits(n) == IF n < 10 THEN 1 ELSE IF n < 100 THEN 2 ELSE 3

AttributeLength(name, value) == 4 + name + value

(* The shortest: without a success count, of a type of two characters *)
ResponseLength(size, digits) ==
  9 + AttributeLength(4, 2) + AttributeLength(4, Digits(size))
    + (IF size = 0 THEN 3 ELSE 1 + 11 * size + digits + 11)

(* Mutant: the dice are written with a space between them. *)
CastLengthMutantSpace(size, digits) == digits + 2 * size

(* WriteAsText(Cast) *)
CastLength(size, digits) == digits + size

(* The command ShowResponse chooses; nothing larger than MaxShown is shown. *)
MaxShown == MAX_BUFFER_SIZE(Dictionary.ShowLongResponse) \div 3

ShowCommand(size) ==
  IF size <= MAX_BUFFER_SIZE(Dictionary.ShowResponse) \div 3
  THEN Dictionary.ShowResponse ELSE Dictionary.ShowLongResponse

(* RemotePeerManager::Send refuses what is longer. *)
IsSendable(length) == length <= MAX_BUFFER_SIZE(Dictionary.SendLongMessage)

=============================================================================
