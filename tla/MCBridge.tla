------------------------------ MODULE MCBridge ------------------------------
(***************************************************************************)
(* The bridge together with the arguments it passes.  What is said of them  *)
(* does not depend on the state: TLC looks at it once, in the initial one.  *)
(***************************************************************************)
EXTENDS Bridge, CommandArguments

(* The lengths of what the core passes: numbers of 32 bits, names of up to 248 bytes. *)
Lengths(cmd, param) ==
  CASE param = "uuid"         -> {36}
    [] param = "application"  -> {7}
    [] param = "flag"         -> {4, 5}
    [] param = "number"       -> {1, 2, 10, 11}
    [] param = "type"         -> 2 .. 4
    [] param = "address"      -> {17}
    [] param = "reason"       -> {0, 23}
    [] param = "farewell"     -> {38}
    [] param = "toast"        -> {16, 34, 45}
    [] param = "name"         -> 0 .. 33 \cup {248}
    [] param = "message"      -> {43, 60, 127, 128} \cup 250 .. MAX_BUFFER_SIZE(cmd)
    [] param = "longMessage" -> 256 .. 258 \cup 1020 .. MAX_BUFFER_SIZE(cmd)
    [] param = "cast"         -> {0, 2, 127, 128, 250} \cup
                                 MAX_BUFFER_SIZE(cmd) - 3 .. MAX_BUFFER_SIZE(cmd) + 3

TextLengths(cmd) ==
  LET some[i \in 0 .. Len(cmd.params)] ==
        IF i = 0 THEN {<< >>}
        ELSE {Append(t, n) : t \in some[i - 1], n \in Lengths(cmd, cmd.params[i])}
  IN some[Len(cmd.params)]

(***************************************************************************)
(* A text that leaves its buffer room for a zero is read whole and alone,   *)
(* by Java as a C string and by the log through GetArgAt, whatever its      *)
(* neighbours are and however long they were, and the texts by which Java   *)
(* acts (addresses, identifiers, numbers, types) always leave room.  Every  *)
(* other text runs on, into the next argument or behind the object.  The    *)
(* log needs an unsigned char for more than 127 bytes of a counted text.    *)
(*                                                                         *)
(* So the assertions of GetArgAt (commands.cpp:68, 71, 77) do not always    *)
(* hold: they fail exactly for such a length as a signed char, and for a    *)
(* long text that fills its buffer, such as a message of 1023 bytes.        *)
(***************************************************************************)
ArgumentsIntact ==
  BridgeInit => \A signed \in BOOLEAN, name \in DOMAIN Dictionary :
    LET cmd == Dictionary[name]
    IN \A texts \in TextLengths(cmd) : \A i \in DOMAIN texts :
         LET room     == texts[i] < BufferSize(cmd, i) - 1
             negative == signed /\ Counted(cmd, i) /\ Buffer(cmd, texts, i) > 127
             whole    == GetArgAt(signed, cmd, texts, i) = texts[i]
         IN /\ room <=> EndsHere(cmd, texts, i)
            /\ room /\ ~negative => whole
            /\ cmd.params[i] \notin {"toast", "name", "cast", "message", "longMessage"}
                 => room /\ ~negative
            /\ Asserted(signed, cmd, texts, i) <=> ~negative /\ (Counted(cmd, i) \/ room)

=============================================================================
