-------------------------- MODULE CommandArguments --------------------------
(***************************************************************************)
(* The arguments of commands (cmd::Base, commands.hpp, commands.cpp): each  *)
(* is written as text into a buffer of its own behind a byte for its        *)
(* length, cut to what fits.  The buffers lie one behind the other.  The    *)
(* log reads them through GetArgAt, Java as C strings (javainvoker.cpp:60). *)
(*                                                                         *)
(* Texts are modelled by their lengths; arguments are numbered from 1.  No  *)
(* text contains a zero, and a zero follows every text that leaves room.    *)
(* "signed" says whether the platform's char holds -128 .. 127 or 0 .. 255. *)
(***************************************************************************)
EXTENDS Integers, Sequences, SequencesExt

UCHAR_MAX == 255

Traits(params)          == [long |-> 32,   short |-> 24, params |-> params]
LongTraits(params)      == [long |-> 256,  short |-> 32, params |-> params]
ExtraLongTraits(params) == [long |-> 1024, short |-> 32, params |-> params]

(* The commands that have arguments, with what each parameter is. *)
Dictionary ==
  [StartListening   |-> LongTraits(<<"uuid", "application", "number">>),
   StartDiscovery   |-> LongTraits(<<"uuid", "application", "flag">>),
   CloseConnection  |-> Traits(<<"reason", "address">>),
   NegotiationStop  |-> Traits(<<"name">>),
   SendMessage      |-> LongTraits(<<"message", "address">>),
   SendLongMessage  |-> ExtraLongTraits(<<"longMessage", "address">>),
   ShowAndExit      |-> LongTraits(<<"farewell">>),
   ShowToast        |-> Traits(<<"toast", "number">>),
   ShowNotification |-> Traits(<<"toast">>),
   ShowRequest      |-> Traits(<<"type", "number", "number", "name">>),
   ShowResponse     |-> LongTraits(<<"cast", "type", "number", "name">>),
   ShowLongResponse |-> ExtraLongTraits(<<"cast", "type", "number", "name">>)]

(* MAX_BUFFER_SIZE, which the core compares texts with *)
MAX_BUFFER_SIZE(cmd) == cmd.long - 1

BufferSize(cmd, i) == IF i = 1 THEN cmd.long ELSE cmd.short

(* Format writes as much of the text as fits. *)
Kept(cmd, i, text) == Min({text, BufferSize(cmd, i) - 1})

(* Mutant: the byte itself is counted. *)
LengthByteMutantCount(count) == (count + 1) % (UCHAR_MAX + 1)

(* WriteToBuffer: the length as an unsigned char. *)
LengthByte(count) == count % (UCHAR_MAX + 1)

(***************************************************************************)
(* What the code finds in the buffers after the texts have been written.    *)
(***************************************************************************)
Buffer(cmd, texts, i) == Kept(cmd, i, texts[i])
Full(cmd, texts, i)   == Buffer(cmd, texts, i) = BufferSize(cmd, i) - 1

(* The C string at argument i ends with it: at its zero, or at a next length of 0. *)
EndsHere(cmd, texts, i) ==
  \/ ~Full(cmd, texts, i)
  \/ i < Len(texts) /\ LengthByte(Buffer(cmd, texts, i + 1)) = 0

(* The last argument the C string at i runs into; it may even leave the object. *)
LastRead(cmd, texts, i) ==
  Min({j \in i .. Len(texts) : EndsHere(cmd, texts, j)} \cup {Len(texts)})

(* Where a buffer begins: m_longArgs is followed by m_shortArgs. *)
Offset(cmd, i) == IF i = 1 THEN 0 ELSE cmd.long + (i - 2) * cmd.short

(* Its length; behind the object nothing is known, and nothing is counted. *)
CStringLength(cmd, texts, i) ==
  LET last == LastRead(cmd, texts, i)
  IN Offset(cmd, last) - Offset(cmd, i) + Buffer(cmd, texts, last)

(* A length byte as size_t: a negative char becomes huge. *)
Huge == 1000000000
AsSize(signed, byte) == IF signed /\ byte > 127 THEN Huge + byte ELSE byte

(* GetArgAt goes by the length byte, but not where a long text may exceed it. *)
Counted(cmd, i) == i # 1 \/ MAX_BUFFER_SIZE(cmd) <= UCHAR_MAX

(* The length of the string_view GetArgAt returns. *)
GetArgAt(signed, cmd, texts, i) ==
  IF Counted(cmd, i)
  THEN AsSize(signed, LengthByte(Buffer(cmd, texts, i)))
  ELSE CStringLength(cmd, texts, i)

(* What GetArgAt asserts in each of its branches before it returns. *)
Asserted(signed, cmd, texts, i) == GetArgAt(signed, cmd, texts, i) <= BufferSize(cmd, i)

=============================================================================
