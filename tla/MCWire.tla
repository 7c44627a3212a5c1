-------------------------------- MODULE MCWire --------------------------------
(* What the inspector puts on the wire and takes from it: a client and the agent *)
(* exchange frames, or V8 says a text, or a key is answered.                     *)
EXTENDS WsHandler, Encodings, Utf16

VARIABLE key        \* the key to answer, and none in the other cases

Text(n) == [i \in 1..n |-> (i * 37) % 256]
MaskingKey == <<7, 130, 0, 255>>
ClientSends(first, masked, n) ==
  [first |-> first, masked |-> masked, key |-> MaskingKey, text |-> Text(n)]
Hello   == ClientSends(129, TRUE, 3)
Empty   == ClientSends(129, TRUE, 0)
Close   == ClientSends(136, TRUE, 2)
Longest == ClientSends(129, TRUE, 125)
Long    == ClientSends(129, TRUE, 126)
Longer  == ClientSends(129, TRUE, 300)

MCPlans ==
  {<<Hello, Close, Hello>>, <<Empty, Longest, Long>>, <<Longer, Hello, Empty>>,
   <<Hello, Close, Close>>}
  \cup {<<Hello, ClientSends(first, TRUE, 1), Hello>> :
          first \in {1, 128, 130, 137, 193, 161, 145}}
  \cup {<<ClientSends(129, FALSE, 4), Hello>>}
MCMessages == {Text(n) : n \in {125, 126}}
LongMessages == {Text(n) : n \in {65535, 65536}}
ByteXor(a, b) == a ^^ b

(* A read ends with a frame, after any byte of a header, or a byte or four short. *)
MCReadEnds(places) == {e + d : e \in Range(places) \cup {0}, d \in {-4, -1} \cup 0..11}

(* Units at every boundary of the two encodings, in all texts of three.          *)
Units == {0, 65, 127, 128, 2047, 2048, 55295, 55296, 56319, 56320, 57343, 57344, 65535}
MCViews ==
  {String16(text) : text \in BoundedSeq(Units, 3)} \cup {String8(<<>>), String8(<<0, 65, 127>>)}
(* Keys that leave room for the length, fill a block, and spill into another.     *)
MCKeys == {Text(n) : n \in {0, 1, 2, 55, 56, 60, 63, 64, 65, 119, 120, 128}}
None == <<-1>>

NoFrames == <<>>
MCInit ==
  /\ NothingSaid
  /\ \/ Init /\ key = None
     \/ /\ plan = NoFrames /\ stream = <<>> /\ ends = <<>> /\ came = 0 /\ pos = 0
        /\ received = <<>> /\ open = FALSE /\ whole = FALSE /\ overrun = FALSE
        /\ \/ key \in MCKeys \cup {None} /\ message = <<>>
           \/ key = None /\ message \in LongMessages
        /\ frame = EncodeFrame(message)
MCNext ==
  \/ Next /\ UNCHANGED <<saying, key>>
  \/ /\ plan = NoFrames /\ message = <<>> /\ key = None /\ view = String16(<<>>)
     /\ Say /\ UNCHANGED <<vars, key>>
MCSpec == MCInit /\ [][MCNext]_<<vars, saying, key>>

\* AcceptStringIsTheStandards for the key at hand.
KeysAnswered == key # None => AcceptStringIsTheStandards(key)
===============================================================================
