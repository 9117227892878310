----------------------------- MODULE ByteStream -----------------------------
(***************************************************************************)
(* What include/avium/io.h promises of a stream to a program that writes   *)
(* at its end and reads what it wrote: a sequence of bytes and a position  *)
(* in it. A call is the tuple of its name and its arguments, and decides   *)
(* the bytes, the position and the answer.                                 *)
(***************************************************************************)
EXTENDS Naturals, Sequences, SequencesExt

CONSTANTS Bytes, Newline,
          Limit,     \* the most bytes the program ever wants in the stream
          MaxChunk   \* the longest byte array it passes

VARIABLES bytes, position, call, answer

vars == <<bytes, position, call, answer>>

Init == bytes = <<>> /\ position = 0 /\ call = <<"New">> /\ answer = <<>>

Does(name, args, contents, where, result) ==
    /\ call' = <<name>> \o args
    /\ bytes' = contents
    /\ position' = where
    /\ answer' = result

Write(name, arg, bs) ==
    Does(name, <<arg>>, bytes \o bs, position + Len(bs), <<>>)

Read(n) ==
    /\ position + n <= Len(bytes)
    /\ Does("Read", <<n>>, bytes, position + n, SubSeq(bytes, position + 1, position + n))

(* The line from the position on, without its end.                         *)
ReadLine ==
    \E n \in 0..(Len(bytes) - position - 1) :
        /\ bytes[position + n + 1] = Newline
        /\ \A k \in 1..n : bytes[position + k] # Newline
        /\ Does("ReadLine", <<>>, bytes, position + n + 1,
                SubSeq(bytes, position + 1, position + n))

SeekBegin(offset) == Does("SeekBegin", <<offset>>, bytes, offset, <<>>)
SeekBack(offset) == offset <= position /\ Does("SeekBack", <<offset>>, bytes, position - offset, <<>>)

Next ==
    \/ \E bs \in BoundedSeq(Bytes \cup {Newline}, MaxChunk) : Write("Write", bs, bs)
    \/ \E bs \in BoundedSeq(Bytes, MaxChunk) : Write("WriteLine", bs, Append(bs, Newline))
    \/ \E n \in 0..Limit : Read(n) \/ SeekBegin(n) \/ SeekBack(n)
    \/ ReadLine

Spec == Init /\ [][Next]_vars
=============================================================================
