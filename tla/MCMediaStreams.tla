--------------------------- MODULE MCMediaStreams ---------------------------
(* The constants TLC checks the two senders with: every file of up to three *)
(* of these NALs, and memory with a start code at each position or with     *)
(* none; every file of up to three of these frames, whole or cut, and one   *)
(* whose CRCs use up the buffer.                                            *)
EXTENDS MediaStreams

SpsHeader == 103
SliceHeader == 65
MCNals == {<<SpsHeader>>, <<SpsHeader, 0, 2>>,
           <<SliceHeader>>, <<SliceHeader, 5>>, <<SliceHeader, 0, 0, 3>>,
           <<SliceHeader, 0, 0, 3, 5, 0, 0, 2>>}
MCUnits == [code : {3, 4}, nal : MCNals]
MCVideos == SeqOf(MCUnits, 3) \ {<<>>}

NoCode == [k \in 0..(H264_FILE_BUFFER + 3) |-> 9]
CodeAt(p) == [k \in DOMAIN NoCode |-> IF k = p + 2 THEN 1 ELSE IF k \in {p, p + 1} THEN 0 ELSE 9]
Code4At(p) == [k \in DOMAIN NoCode |-> IF k = p + 3 THEN 1 ELSE IF k \in p..(p + 2) THEN 0 ELSE 9]
MCHeap == {NoCode} \cup {CodeAt(p) : p \in -2..(H264_FILE_BUFFER + 1)} \cup {Code4At(H264_FILE_BUFFER)}

Adts(sync, crc, length, data) ==
  [syncword |-> sync, crc |-> crc, aacFrameLength |-> length, data |-> data]
Plain(data) == Adts(TRUE, FALSE, AdtsLength + Len(data), data)
WithCrc(data) == Adts(TRUE, TRUE, AdtsLength + Len(data), data)

\* Longer than five bits of the AU header say, and what looks like a header.
Long == [k \in 1..40 |-> k]
Header == AdtsHeader(Plain(Long))
MCFrames == {
  Plain(<<9>>), Plain(Long), WithCrc(<<5, 6, 7>>),
  Plain(<<>>), WithCrc(<<5>>), WithCrc(<<5, 6>>), Adts(FALSE, FALSE, 8, <<9>>),
  Adts(TRUE, FALSE, 3, <<9>>), Adts(TRUE, FALSE, 12, <<9>>),
  Adts(TRUE, FALSE, 8191, Header), Adts(TRUE, FALSE, 8, Header)
}
MCAudios == SeqOf(MCFrames, 3) \cup
  {[i \in 1..12 |-> IF i < 12 THEN WithCrc(<<5, 6, 7>>) ELSE Plain(Long)]}
MCCuts == {0, 2, 8}
=============================================================================
