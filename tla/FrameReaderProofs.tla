------------------------- MODULE FrameReaderProofs -------------------------
(* Theorems about FrameReader, for any frames, limits and sizes of reads.  *)
EXTENDS FrameReader, TLAPS

LEMMA ModAdd ==
    ASSUME NEW a \in Nat, NEW b \in Nat
    PROVE  ((a % 4) + b) % 4 = (a + b) % 4 /\ (a + b) % 4 \in 0..3
BY SMT

LEMMA FrameFacts ==
    ASSUME TypeOK
    PROVE  /\ frame \in FrameType
           /\ frame.size \in Nat /\ frame.badAt \in Nat /\ frame.badAt <= frame.size
           /\ get_header_len(frame) \in BasicHeaderLength..(BasicHeaderLength + MaxExtendedHeaderLength)
           /\ frame.masked => get_header_len(frame) > BasicHeaderLength
BY FrameAssumption, SMT DEF TypeOK, FrameType, get_header_len, get_masking_key_offset,
    BasicHeaderLength, MaxExtendedHeaderLength

\* What is consumed in one step: all that the field needs, or all there is.
LEMMA BytesFacts ==
    ASSUME TypeOK
    PROVE  /\ Bytes \in Nat
           /\ Bytes <= m_bytes_needed /\ Bytes <= avail
           /\ ~Short => Bytes = m_bytes_needed
           /\ Short => Bytes = avail
           /\ m_bytes_needed - Bytes \in Nat /\ avail - Bytes \in Nat
           /\ Short => m_bytes_needed - Bytes > 0
BY SMT DEF TypeOK, Bytes, Short

\* The payload goes to the data or to the control message, never to none.
LEMMA CurrentFacts ==
    ASSUME IInv, m_state = "APPLICATION"
    PROVE  /\ frame.op \in Control => m_current_msg = m_control_msg /\ m_control_msg \in ControlMsg
           /\ frame.op \notin Control =>
                /\ frame.op \in Data
                /\ m_current_msg = m_data_msg /\ m_data_msg \in DataMsg
           /\ m_current_msg.size \in Nat /\ m_current_msg.key \in 0..3
           /\ PayloadDone \in Nat
<1>1. frame.op \in Control \cup Data
    BY FrameFacts, SMT DEF IInv, Accepted, FrameType
<1>2. PayloadDone \in Nat
    BY FrameFacts, SMT DEF IInv, Aligned, TypeOK, PayloadDone
<1>3. CASE frame.op \in Control
    <2>1. m_current_msg = m_control_msg /\ m_control_msg \in ControlMsg
        BY <1>3 DEF IInv, Accepted, TypeOK, m_current_msg
    <2> QED
        BY <1>2, <1>3, <2>1 DEF ControlMsg
<1>4. CASE frame.op \notin Control
    <2>1. m_current_msg = m_data_msg /\ m_data_msg \in DataMsg
        BY <1>1, <1>4 DEF IInv, Accepted, TypeOK, m_current_msg
    <2> QED
        BY <1>1, <1>2, <1>4, <2>1 DEF DataMsg
<1> QED
    BY <1>3, <1>4

\* A piece of payload is appended and unmasked where the one before it ended.
LEMMA ExtendedFacts ==
    ASSUME IInv, m_state = "APPLICATION"
    PROVE  /\ frame.op \in Control => Extended \in ControlMsg
           /\ frame.op \notin Control => Extended \in DataMsg
           /\ Extended.op = m_current_msg.op
           /\ Extended.size = m_current_msg.size + Bytes
           /\ Extended.key = (PayloadDone + Bytes) % 4
<1>1. Bytes \in Nat
    BY BytesFacts DEF IInv
<1>2. m_current_msg.key = PayloadDone % 4
    BY DEF IInv, MaskInStep
<1>3. (m_current_msg.key + Bytes) % 4 = (PayloadDone + Bytes) % 4
      /\ (PayloadDone + Bytes) % 4 \in 0..3
    BY <1>1, <1>2, CurrentFacts, ModAdd
<1>4. m_current_msg.size + Bytes \in Nat
    BY <1>1, CurrentFacts, SMT
<1>5. CASE frame.op \in Control
    BY <1>3, <1>4, <1>5, CurrentFacts DEF Extended, ControlMsg
<1>6. CASE frame.op \notin Control
    BY <1>3, <1>4, <1>6, CurrentFacts DEF Extended, DataMsg
<1> QED
    BY <1>5, <1>6

LEMMA MessageFacts ==
    ASSUME IInv, m_state = "APPLICATION"
    PROVE  Message \in Handed
BY ExtendedFacts DEF Message, Handed, ControlMsg, DataMsg
-----------------------------------------------------------------------------
LEMMA InitHolds == Init => IInv
<1> SUFFICES ASSUME Init PROVE IInv
    OBVIOUS
<1>1. TypeOK
    BY SMT DEF Init, TypeOK, BasicHeaderLength
<1> QED
    BY <1>1, SMT DEF Init, IInv, Aligned, Accepted, MaskInStep, Waiting, BasicHeaderLength

LEMMA ReadKeeps ==
    ASSUME IInv, NEW n \in 1..BufferSize, Read(n)
    PROVE  IInv'
<1>1. n \in Nat
    BY LimitAssumption
<1>2. TypeOK'
    BY <1>1 DEF IInv, TypeOK, Read, processorVars, streamVars
<1>3. Aligned' /\ Accepted' /\ MaskInStep'
    BY DEF IInv, Read, processorVars, streamVars, Aligned, Accepted, MaskInStep, PayloadDone,
           m_current_msg, ContinuationFits, validate_incoming_extended_header,
           get_header_len, get_masking_key_offset
<1>4. Waiting'
    BY DEF Read, Waiting
<1> QED
    BY <1>2, <1>3, <1>4 DEF IInv

LEMMA ReadOnKeeps ==
    ASSUME IInv, ReadOn
    PROVE  IInv'
<1>2. TypeOK'
    BY DEF IInv, TypeOK, ReadOn, processorVars, streamVars
<1>3. Aligned' /\ Accepted' /\ MaskInStep'
    BY DEF IInv, ReadOn, processorVars, streamVars, Aligned, Accepted, MaskInStep, PayloadDone,
           m_current_msg, ContinuationFits, validate_incoming_extended_header,
           get_header_len, get_masking_key_offset
<1>4. Waiting'
    BY SMT DEF IInv, TypeOK, ReadOn, Waiting, MoreToDo, processorVars
<1> QED
    BY <1>2, <1>3, <1>4 DEF IInv

LEMMA FailKeeps ==
    ASSUME IInv, Fail
    PROVE  IInv'
<1>2. TypeOK'
    BY DEF IInv, TypeOK, Fail, processorVars, streamVars
<1>3. Aligned' /\ Accepted' /\ MaskInStep' /\ Waiting'
    BY DEF IInv, Fail, processorVars, streamVars, Aligned, Accepted, MaskInStep, PayloadDone,
           m_current_msg, ContinuationFits, validate_incoming_extended_header,
           get_header_len, get_masking_key_offset, Waiting
<1> QED
    BY <1>2, <1>3 DEF IInv

LEMMA copy_basic_header_bytesKeeps ==
    ASSUME IInv, copy_basic_header_bytes
    PROVE  IInv'
<1>1. Bytes \in Nat /\ m_bytes_needed - Bytes \in Nat /\ avail - Bytes \in Nat
      /\ m_bytes_needed - Bytes > 0 /\ Bytes <= m_bytes_needed
    BY BytesFacts DEF IInv, copy_basic_header_bytes
<1>2. TypeOK'
    BY <1>1, SMT DEF IInv, TypeOK, copy_basic_header_bytes, Advance
<1>3. Aligned'
    BY <1>1, SMT DEF IInv, TypeOK, Aligned, copy_basic_header_bytes, Advance, In, BasicHeaderLength
<1>4. Accepted' /\ MaskInStep'
    BY DEF IInv, Accepted, MaskInStep, copy_basic_header_bytes, In
<1>5. Waiting'
    BY DEF Waiting, copy_basic_header_bytes, Advance, In
<1> QED
    BY <1>2, <1>3, <1>4, <1>5 DEF IInv

LEMMA BasicHeaderReadKeeps ==
    ASSUME IInv, BasicHeaderRead
    PROVE  IInv'
<1>1. Bytes \in Nat /\ avail - Bytes \in Nat /\ Bytes = m_bytes_needed
    BY BytesFacts DEF IInv, BasicHeaderRead
<1>2. get_header_len(frame) - BasicHeaderLength \in 1..MaxExtendedHeaderLength
    BY FrameFacts, SMT DEF IInv, BasicHeaderRead, validate_incoming_basic_header,
        BasicHeaderLength, MaxExtendedHeaderLength
<1>3. frame' = frame
    BY DEF BasicHeaderRead, Advance
<1>4. TypeOK'
    BY <1>1, <1>2, SMT DEF IInv, TypeOK, BasicHeaderRead, Advance, MaxExtendedHeaderLength
<1>5. get_header_len(frame)' = get_header_len(frame)
    BY <1>3 DEF get_header_len, get_masking_key_offset
<1>6. offset' = BasicHeaderLength
    BY <1>1, SMT DEF IInv, TypeOK, Aligned, BasicHeaderRead, Advance, In, BasicHeaderLength
<1>7. Aligned'
    BY <1>2, <1>5, <1>6, SMT DEF Aligned, BasicHeaderRead, BasicHeaderLength,
        MaxExtendedHeaderLength
<1>8. Accepted'
    BY <1>3, FrameFacts DEF IInv, Accepted, BasicHeaderRead, validate_incoming_basic_header,
        ContinuationFits
<1>9. MaskInStep' /\ Waiting'
    BY DEF MaskInStep, Waiting, BasicHeaderRead, Advance, In
<1> QED
    BY <1>4, <1>7, <1>8, <1>9 DEF IInv

LEMMA copy_extended_header_bytesKeeps ==
    ASSUME IInv, copy_extended_header_bytes
    PROVE  IInv'
<1>1. Bytes \in Nat /\ m_bytes_needed - Bytes \in Nat /\ avail - Bytes \in Nat
      /\ m_bytes_needed - Bytes > 0 /\ Bytes <= m_bytes_needed
    BY BytesFacts DEF IInv, copy_extended_header_bytes
<1>2. TypeOK'
    BY <1>1, SMT DEF IInv, TypeOK, copy_extended_header_bytes, Advance
<1>3. frame' = frame /\ m_state = "HEADER_EXTENDED" /\ m_state' = m_state
    BY DEF copy_extended_header_bytes, Advance, In
<1>4. get_header_len(frame)' = get_header_len(frame) /\ get_header_len(frame) \in Nat
    BY <1>3, FrameFacts, SMT DEF IInv, get_header_len, get_masking_key_offset,
        BasicHeaderLength, MaxExtendedHeaderLength
<1>5. Aligned'
    BY <1>1, <1>3, <1>4, SMT DEF IInv, TypeOK, Aligned, copy_extended_header_bytes, Advance,
        BasicHeaderLength, MaxExtendedHeaderLength
<1>6. Accepted' /\ MaskInStep'
    BY <1>3 DEF IInv, Accepted, MaskInStep, copy_extended_header_bytes, ContinuationFits
<1>7. Waiting'
    BY DEF Waiting, copy_extended_header_bytes, Advance, In
<1> QED
    BY <1>2, <1>5, <1>6, <1>7 DEF IInv

LEMMA ExtendedHeaderReadKeeps ==
    ASSUME IInv, ExtendedHeaderRead
    PROVE  IInv'
<1>1. Bytes \in Nat /\ avail - Bytes \in Nat /\ Bytes = m_bytes_needed
    BY BytesFacts DEF IInv, ExtendedHeaderRead
<1>2. /\ frame' = frame /\ m_state = "HEADER_EXTENDED" /\ m_state' = "APPLICATION"
      /\ m_bytes_needed' = frame.size /\ reading' = reading /\ ~reading
    BY DEF ExtendedHeaderRead, Advance, In
<1>7. /\ offset' = offset + Bytes /\ avail' = avail - Bytes /\ m_cursor' = m_cursor + Bytes
      /\ session' = session /\ handed' = handed
      /\ validate_incoming_extended_header(frame)
    BY DEF ExtendedHeaderRead, Advance
<1>3. /\ frame.size \in Nat /\ frame.badAt \in Nat
      /\ PayloadDone' = 0
    BY <1>2, FrameFacts, SMT DEF IInv, PayloadDone
<1>4. frame.op \in Control \cup Data
    BY <1>2, FrameFacts, SMT DEF IInv, Accepted, FrameType
<1>5. m_control_msg' \in ControlMsg \cup {None}
    <2>1. CASE frame.op \in Control
        BY <2>1 DEF ExtendedHeaderRead, ControlMsg
    <2>2. CASE frame.op \notin Control
        BY <2>2 DEF IInv, TypeOK, ExtendedHeaderRead
    <2> QED
        BY <2>1, <2>2
<1>6. m_data_msg' \in DataMsg \cup {None} /\ Accepted' /\ MaskInStep'
    <2>1. CASE frame.op \in Control
        <3>1. /\ m_data_msg' = m_data_msg
              /\ m_control_msg' = [op |-> frame.op, size |-> 0, key |-> 0]
            BY <2>1 DEF ExtendedHeaderRead
        <3>2. m_control_msg' \in ControlMsg /\ m_control_msg' # None
            BY <2>1, <3>1, NoneAssumption DEF ControlMsg
        <3>3. m_data_msg' \in DataMsg \cup {None}
            BY <3>1 DEF IInv, TypeOK
        <3>4. frame.op \notin Data
            BY <2>1 DEF Control, Data
        <3>5. Accepted'
            BY <1>2, <1>3, <2>1, <3>1, <3>2, <3>4, <1>7, SMT
                DEF IInv, Accepted, validate_incoming_extended_header
        <3>6. MaskInStep'
            BY <1>2, <1>3, <2>1, <3>1, SMT DEF MaskInStep, m_current_msg
        <3> QED
            BY <3>3, <3>5, <3>6
    <2>2. CASE frame.op \notin Control
        <3>1. frame.op \in Data
            BY <1>4, <2>2
        <3>2. frame.op = "continuation" <=> m_data_msg # None
            BY <1>2, <3>1 DEF IInv, Accepted, ContinuationFits
        <3>3. CASE m_data_msg = None
            <4>1. m_data_msg' = [op |-> frame.op, size |-> 0, key |-> 0]
                BY <2>2, <3>3 DEF ExtendedHeaderRead
            <4>2. frame.op \in {"text", "binary"}
                BY <3>1, <3>2, <3>3 DEF Data
            <4>3. m_data_msg' \in DataMsg /\ m_data_msg' # None
                BY <4>1, <4>2, NoneAssumption DEF DataMsg
            <4>4. m_data_msg'.size <= MaxMemory /\ SizeT(m_data_msg'.size + frame.size) <= MaxMessage
                <5>1. frame.size <= MaxMessage
                    BY <3>1, <3>3 DEF ExtendedHeaderRead, FitsMessage
                <5>2. frame.size < SizeModulus /\ m_data_msg'.size = 0
                    BY <4>1, SizeAssumption DEF IInv, TypeOK
                <5> QED
                    BY <1>3, <5>1, <5>2, SizeAssumption DEF SizeT
            <4>5. Accepted'
                BY <1>2, <1>3, <2>2, <3>1, <4>1, <4>2, <4>3, <4>4, <1>7, SMT
                DEF IInv, Accepted, validate_incoming_extended_header
            <4>6. MaskInStep'
                BY <1>2, <1>3, <2>2, <4>1, SMT DEF MaskInStep, m_current_msg
            <4> QED
                BY <4>3, <4>5, <4>6
        <3>4. CASE m_data_msg # None
            <4>1. m_data_msg' = [m_data_msg EXCEPT !.key = 0] /\ m_data_msg \in DataMsg
                BY <2>2, <3>4 DEF ExtendedHeaderRead, prepared_key, IInv, TypeOK
            <4>2. /\ m_data_msg' \in DataMsg /\ m_data_msg' # None
                  /\ m_data_msg'.op = m_data_msg.op /\ m_data_msg'.size = m_data_msg.size
                  /\ m_data_msg'.key = 0
                BY <4>1, NoneAssumption DEF DataMsg
            <4>3. /\ m_data_msg.size \in Nat /\ m_data_msg.size <= MaxMemory
                  /\ SizeT(m_data_msg.size + frame.size) <= MaxMessage
                BY <3>1, <3>4, <4>1 DEF ExtendedHeaderRead, FitsMessage, DataMsg, IInv, Accepted
            <4>4. frame.op = "continuation"
                BY <3>2, <3>4
            <4>5. Accepted'
                BY <1>2, <1>3, <2>2, <3>1, <4>2, <4>3, <4>4, <1>7, SMT
                DEF IInv, Accepted, validate_incoming_extended_header
            <4>6. MaskInStep'
                BY <1>2, <1>3, <2>2, <4>2, SMT DEF MaskInStep, m_current_msg
            <4> QED
                BY <4>2, <4>5, <4>6
        <3> QED
            BY <3>3, <3>4
    <2> QED
        BY <2>1, <2>2
<1>8. TypeOK'
    <2>1. m_data_msg' \in DataMsg \cup {None}
        BY <1>6
    <2>2. m_bytes_needed' \in Nat /\ m_cursor' \in Nat /\ avail' \in Nat /\ offset' \in Nat
        BY <1>1, <1>2, <1>3, <1>7, SMT DEF IInv, TypeOK
    <2> QED
        BY <1>2, <1>5, <1>7, <2>1, <2>2 DEF IInv, TypeOK
<1>9. Aligned'
    <2>1. get_header_len(frame)' = get_header_len(frame) /\ get_header_len(frame) \in Nat
        BY <1>2, FrameFacts, SMT DEF IInv, get_header_len, get_masking_key_offset,
            BasicHeaderLength, MaxExtendedHeaderLength
    <2>2. offset' = get_header_len(frame)
        BY <1>1, <1>2, <1>7, <2>1, SMT DEF IInv, TypeOK, Aligned, BasicHeaderLength
    <2> QED
        BY <1>2, <1>3, <2>1, <2>2, SMT DEF Aligned
<1>10. Waiting'
    BY <1>2 DEF Waiting
<1> QED
    BY <1>6, <1>8, <1>9, <1>10 DEF IInv

LEMMA process_payload_bytesKeeps ==
    ASSUME IInv, process_payload_bytes
    PROVE  IInv'
<1>1. Bytes \in Nat /\ m_bytes_needed - Bytes \in Nat /\ avail - Bytes \in Nat
      /\ Bytes <= m_bytes_needed
    BY BytesFacts DEF IInv
<1>2. /\ frame' = frame /\ m_state = "APPLICATION" /\ m_state' = m_state
      /\ reading' = reading /\ ~reading /\ m_bytes_needed' = m_bytes_needed - Bytes
      /\ offset' = offset + Bytes /\ avail' = avail - Bytes /\ m_cursor' = m_cursor
      /\ session' = session /\ handed' = handed
    BY DEF process_payload_bytes, Advance, In
<1>3. /\ frame.size \in Nat /\ frame.badAt \in Nat /\ m_bytes_needed \in Nat
      /\ get_header_len(frame)' = get_header_len(frame) /\ get_header_len(frame) \in Nat
      /\ frame.op \in Control \cup Data
    <2>1. get_header_len(frame)' = get_header_len(frame)
        BY <1>2 DEF get_header_len, get_masking_key_offset
    <2>2. frame.op \in Control \cup Data
        BY <1>2, FrameFacts DEF IInv, Accepted, FrameType
    <2> QED
        BY <2>1, <2>2, FrameFacts, SMT DEF IInv, TypeOK, BasicHeaderLength,
            MaxExtendedHeaderLength
<1>4. PayloadDone \in Nat /\ PayloadDone' = PayloadDone + Bytes
    BY <1>1, <1>2, <1>3, CurrentFacts, SMT DEF PayloadDone
<1>5. /\ m_control_msg' \in ControlMsg \cup {None} /\ m_data_msg' \in DataMsg \cup {None}
      /\ Accepted' /\ MaskInStep'
    <2>1. CASE frame.op \in Control
        <3>1. m_data_msg' = m_data_msg /\ m_control_msg' = Extended
            BY <2>1 DEF process_payload_bytes
        <3>2. /\ m_control_msg' \in ControlMsg /\ m_control_msg' # None
              /\ m_control_msg'.op = frame.op /\ m_control_msg'.size = PayloadDone'
              /\ m_control_msg'.key = PayloadDone' % 4
            BY <1>2, <1>4, <2>1, <3>1, ExtendedFacts, CurrentFacts, NoneAssumption
               DEF IInv, Accepted
        <3>3. frame.op \notin Data
            BY <2>1 DEF Control, Data
        <3>4. Accepted'
            BY <1>2, <2>1, <3>1, <3>2, <3>3 DEF IInv, Accepted, validate_incoming_extended_header
        <3>5. MaskInStep'
            BY <1>2, <2>1, <3>2 DEF MaskInStep, m_current_msg
        <3> QED
            BY <3>1, <3>2, <3>4, <3>5 DEF IInv, TypeOK
    <2>2. CASE frame.op \notin Control
        <3>1. m_control_msg' = m_control_msg /\ m_data_msg' = Extended /\ frame.op \in Data
            BY <1>3, <2>2 DEF process_payload_bytes
        <3>2. /\ m_data_msg' \in DataMsg /\ m_data_msg' # None
              /\ m_data_msg'.op = m_data_msg.op /\ m_data_msg'.size = m_data_msg.size + Bytes
              /\ m_data_msg'.key = PayloadDone' % 4 /\ m_data_msg.size \in Nat
            BY <1>2, <1>4, <2>2, <3>1, ExtendedFacts, CurrentFacts, NoneAssumption
               DEF IInv, Accepted
        <3>3. m_data_msg'.op = "text" => frame.badAt = 0 \/ frame.badAt > PayloadDone'
            <4>1. m_data_msg.op = "text" => frame.badAt = 0 \/ frame.badAt > PayloadDone
                BY <1>2, <3>1 DEF IInv, Accepted
            <4>2. m_data_msg.op = "text" => frame.badAt \notin (PayloadDone + 1)..(PayloadDone + Bytes)
                BY <2>2 DEF process_payload_bytes, DecodeFails, m_current_msg
            <4> QED
                BY <1>1, <1>3, <1>4, <3>2, <4>1, <4>2, SMT
        <3>4. /\ frame.op = "continuation" => m_data_msg'.size >= PayloadDone'
              /\ frame.op # "continuation" =>
                    m_data_msg'.op = frame.op /\ m_data_msg'.size = PayloadDone'
              /\ m_data_msg'.size <= MaxMemory
              /\ SizeT(m_data_msg'.size + m_bytes_needed') <= MaxMessage
            <4>1. /\ frame.op = "continuation" => m_data_msg.size >= PayloadDone
                  /\ frame.op # "continuation" =>
                        m_data_msg.op = frame.op /\ m_data_msg.size = PayloadDone
                  /\ SizeT(m_data_msg.size + m_bytes_needed) <= MaxMessage
                BY <1>2, <3>1 DEF IInv, Accepted
            <4>2. m_data_msg'.size + m_bytes_needed' = m_data_msg.size + m_bytes_needed
                BY <1>1, <1>2, <1>3, <3>2, SMT
            <4>3. SizeT(m_data_msg'.size + m_bytes_needed') = SizeT(m_data_msg.size + m_bytes_needed)
                BY <4>2
            <4>4. m_data_msg'.size <= MaxMemory
                <5>1. ~Exhausted /\ m_current_msg = m_data_msg
                    BY <1>2, <2>2, CurrentFacts DEF process_payload_bytes
                <5> QED
                    BY <1>1, <3>2, <5>1, SizeAssumption DEF Exhausted
            <4> QED
                BY <1>1, <1>2, <1>3, <1>4, <3>2, <4>1, <4>3, <4>4, SMT
        <3>5. Accepted'
            BY <1>2, <2>2, <3>2, <3>3, <3>4 DEF IInv, Accepted, validate_incoming_extended_header
        <3>6. MaskInStep'
            BY <1>2, <2>2, <3>2 DEF MaskInStep, m_current_msg
        <3> QED
            BY <3>1, <3>2, <3>5, <3>6 DEF IInv, TypeOK
    <2> QED
        BY <2>1, <2>2
<1>6. TypeOK'
    <2>1. m_bytes_needed' \in Nat /\ avail' \in Nat /\ offset' \in Nat
        BY <1>1, <1>2, SMT DEF IInv, TypeOK
    <2> QED
        BY <1>2, <1>5, <2>1 DEF IInv, TypeOK
<1>7. Aligned'
    BY <1>1, <1>2, <1>3, <1>4, SMT DEF IInv, TypeOK, Aligned
<1>8. Waiting'
    BY <1>2 DEF Waiting
<1> QED
    BY <1>5, <1>6, <1>7, <1>8 DEF IInv

\* The end of a frame, whatever it was part of.
LEMMA ResetKeeps ==
    ASSUME IInv, reset_headers,
           m_data_msg' \in DataMsg \cup {None}, m_control_msg' \in ControlMsg \cup {None},
           m_data_msg' # None => m_data_msg'.size <= MaxMemory,
           session' \in {"open", "closing", "done"}, handed' \in Seq(Handed)
    PROVE  IInv'
<1>1. avail - Bytes \in Nat
    BY BytesFacts DEF IInv
<1>2. /\ m_state' = "HEADER_BASIC" /\ m_bytes_needed' = 2 /\ offset' = 0 /\ frame' \in Frame
      /\ avail' = avail - Bytes /\ m_cursor' = m_cursor /\ reading' = reading /\ ~reading
    BY DEF reset_headers, In, BasicHeaderLength
<1>3. TypeOK'
    BY <1>1, <1>2 DEF IInv, TypeOK
<1>4. Aligned' /\ Accepted' /\ MaskInStep' /\ Waiting'
    BY <1>2, SMT DEF Aligned, Accepted, MaskInStep, Waiting, BasicHeaderLength
<1> QED
    BY <1>3, <1>4 DEF IInv

LEMMA FragmentReadKeeps ==
    ASSUME IInv, FragmentRead
    PROVE  IInv'
<1>1. m_state = "APPLICATION"
    BY DEF FragmentRead, reset_headers, In
<1>2. frame.op \notin Control
    BY <1>1 DEF IInv, Accepted, FragmentRead
<1>3. m_data_msg' \in DataMsg /\ m_data_msg'.size <= MaxMemory
    <2>1. ~Exhausted /\ m_data_msg' = Extended /\ Bytes \in Nat
        BY BytesFacts DEF FragmentRead, reset_headers, IInv
    <2>2. Extended \in DataMsg /\ Extended.size = m_current_msg.size + Bytes
        BY <1>1, <1>2, ExtendedFacts
    <2>3. m_current_msg.size \in Nat
        BY <1>1, CurrentFacts
    <2> QED
        BY <2>1, <2>2, <2>3, SizeAssumption DEF Exhausted
<1>4. /\ m_control_msg' \in ControlMsg \cup {None}
      /\ session' \in {"open", "closing", "done"} /\ handed' \in Seq(Handed)
    BY DEF IInv, TypeOK, FragmentRead
<1> QED
    BY <1>3, <1>4, ResetKeeps DEF FragmentRead

LEMMA MessageReadKeeps ==
    ASSUME IInv, MessageRead
    PROVE  IInv'
<1>1. m_state = "APPLICATION"
    BY DEF MessageRead, reset_headers, In
<1>2. handed' \in Seq(Handed)
    BY <1>1, MessageFacts DEF IInv, TypeOK, MessageRead
<1>3. /\ m_data_msg' \in DataMsg \cup {None} /\ m_control_msg' \in ControlMsg \cup {None}
      /\ session' \in {"open", "closing", "done"}
    BY DEF IInv, TypeOK, MessageRead
<1> QED
    BY <1>2, <1>3, ResetKeeps DEF MessageRead

LEMMA ControlReadKeeps ==
    ASSUME IInv, ControlRead
    PROVE  IInv'
<1>1. m_state = "APPLICATION"
    BY DEF ControlRead, reset_headers, In
<1>2. handed' \in Seq(Handed)
    BY <1>1, MessageFacts DEF IInv, TypeOK, ControlRead
<1>3. /\ m_data_msg' \in DataMsg \cup {None} /\ m_control_msg' \in ControlMsg \cup {None}
      /\ session' \in {"open", "closing", "done"}
    BY DEF IInv, TypeOK, ControlRead
<1>4. m_data_msg' # None => m_data_msg'.size <= MaxMemory
    BY DEF IInv, Accepted, ControlRead
<1> QED
    BY <1>2, <1>3, <1>4, ResetKeeps DEF ControlRead

LEMMA StutterKeeps ==
    ASSUME IInv, UNCHANGED vars
    PROVE  IInv'
<1>1. TypeOK'
    BY DEF IInv, TypeOK, vars, processorVars, streamVars
<1>2. Aligned' /\ Accepted' /\ MaskInStep' /\ Waiting'
    BY DEF IInv, vars, processorVars, streamVars, Aligned, Accepted, MaskInStep, PayloadDone,
           m_current_msg, ContinuationFits, validate_incoming_extended_header,
           get_header_len, get_masking_key_offset, Waiting
<1> QED
    BY <1>1, <1>2 DEF IInv

LEMMA StepKeeps ==
    ASSUME IInv, [Next]_vars
    PROVE  IInv'
<1>1. CASE consume
    <2>1. CASE BasicHeaderFails \/ ExtendedHeaderFails \/ PayloadFails \/ OutOfMemory
        BY <2>1, FailKeeps DEF BasicHeaderFails, ExtendedHeaderFails, PayloadFails, OutOfMemory
    <2> QED
        BY <1>1, <2>1, copy_basic_header_bytesKeeps, BasicHeaderReadKeeps,
           copy_extended_header_bytesKeeps, ExtendedHeaderReadKeeps,
           process_payload_bytesKeeps, FragmentReadKeeps, MessageReadKeeps,
           ControlReadKeeps DEF consume
<1>2. CASE ReadOn
    BY <1>2, ReadOnKeeps
<1>3. CASE \E n \in 1..BufferSize : Read(n)
    BY <1>3, ReadKeeps
<1>4. CASE UNCHANGED vars
    BY <1>4, StutterKeeps
<1> QED
    BY <1>1, <1>2, <1>3, <1>4 DEF Next

\* The inductive invariant of the reader: where its counters stand, what it
\* has checked of the frame, and that the mask is in step.
THEOREM Inductive == Spec => []IInv
<1> QED
    BY InitHolds, StepKeeps, PTL DEF Spec

\* However the bytes come, each is unmasked with its byte of the key of its
\* own frame (byte_mask_circ, and the new key of each fragment).
THEOREM EveryByteInStep == Spec => []MaskInStep
<1>1. IInv => MaskInStep
    BY DEF IInv
<1> QED
    BY <1>1, Inductive, PTL

\* No frame that has come wholly waits for the bytes of the next one.
THEOREM FramesAreNotHeld == Spec => []NothingHeldBack
<1>1. ASSUME IInv
      PROVE  NothingHeldBack
    <2>1. SUFFICES ASSUME reading
                   PROVE  avail = 0 /\ offset < get_header_len(frame) + frame.size
        BY DEF NothingHeldBack
    <2>2. m_bytes_needed > 0 /\ avail = 0 /\ m_bytes_needed \in Nat
        BY <1>1, <2>1 DEF IInv, Waiting, TypeOK
    <2>3. frame.size \in Nat /\ get_header_len(frame) \in Nat /\ get_header_len(frame) >= 2
        BY <1>1, FrameFacts, SMT DEF IInv, BasicHeaderLength, MaxExtendedHeaderLength
    <2>4. CASE m_state = "HEADER_BASIC"
        BY <1>1, <2>2, <2>3, <2>4, SMT DEF IInv, Aligned, BasicHeaderLength
    <2>5. CASE m_state = "HEADER_EXTENDED"
        BY <1>1, <2>2, <2>3, <2>5, SMT DEF IInv, TypeOK, Aligned, BasicHeaderLength
    <2>6. CASE m_state = "APPLICATION"
        BY <1>1, <2>2, <2>3, <2>6, SMT DEF IInv, Aligned, PayloadDone
    <2> QED
        BY <1>1, <2>4, <2>5, <2>6 DEF IInv, TypeOK
<1> QED
    BY <1>1, Inductive, PTL
-----------------------------------------------------------------------------
(* The refinement of Framing.                                              *)

\* What Framing knows of the message, from what the processor holds.
LEMMA PartialInHeader ==
    ASSUME IInv, session # "done", m_state # "APPLICATION"
    PROVE  /\ m_data_msg = None => Partial = None
           /\ m_data_msg # None =>
                /\ m_data_msg \in DataMsg /\ Partial # None
                /\ Partial = [op |-> m_data_msg.op, size |-> m_data_msg.size]
<1>1. CASE m_data_msg # None
    <2>1. m_data_msg \in DataMsg
        BY <1>1 DEF IInv, TypeOK
    <2>2. [op |-> m_data_msg.op, size |-> m_data_msg.size] \in Handed
        BY <2>1 DEF DataMsg, Handed
    <2> QED
        BY <1>1, <2>1, <2>2, NoneAssumption DEF Partial
<1> QED
    BY <1>1 DEF Partial

LEMMA PartialInPayload ==
    ASSUME IInv, session # "done", m_state = "APPLICATION", frame.op \notin Control
    PROVE  /\ frame.op # "continuation" => Partial = None
           /\ frame.op = "continuation" =>
                /\ Partial # None
                /\ Partial = [op |-> m_data_msg.op, size |-> m_data_msg.size - PayloadDone]
<1>1. m_data_msg \in DataMsg /\ m_data_msg # None /\ frame.op \in Data /\ PayloadDone \in Nat
    BY CurrentFacts, NoneAssumption
<1>2. CASE frame.op = "continuation"
    <2>1. m_data_msg.size - PayloadDone \in Nat
        BY <1>1, <1>2, SMT DEF IInv, Accepted, DataMsg
    <2>2. [op |-> m_data_msg.op, size |-> m_data_msg.size - PayloadDone] \in Handed
        BY <1>1, <2>1 DEF DataMsg, Handed
    <2>3. Partial = [op |-> m_data_msg.op, size |-> m_data_msg.size - PayloadDone]
        BY <1>1, <1>2 DEF Partial
    <2> QED
        BY <1>2, <2>2, <2>3, NoneAssumption
<1> QED
    BY <1>1, <1>2 DEF Partial

LEMMA PartialInControl ==
    ASSUME session # "done", frame.op \in Control
    PROVE  /\ m_data_msg = None => Partial = None
           /\ m_data_msg # None => Partial = [op |-> m_data_msg.op, size |-> m_data_msg.size]
BY DEF Partial

\* The message of Framing is the one put together, with what is still to come.
LEMMA SameMessage ==
    ASSUME IInv, session # "done", m_state = "APPLICATION", frame.op \notin Control
    PROVE  AsFraming!Extended = [op |-> m_data_msg.op, size |-> m_data_msg.size + m_bytes_needed]
<1>1. m_data_msg \in DataMsg /\ frame.op \in Data /\ PayloadDone \in Nat
    BY CurrentFacts
<1>2. m_data_msg.size \in Nat /\ m_bytes_needed \in Nat /\ frame.size \in Nat
    BY <1>1, FrameFacts DEF IInv, TypeOK, DataMsg
<1>3. CASE frame.op = "continuation"
    <2>1. (m_data_msg.size - PayloadDone) + frame.size = m_data_msg.size + m_bytes_needed
        BY <1>2, SMT DEF PayloadDone
    <2>2. Partial.op = m_data_msg.op /\ Partial.size = m_data_msg.size - PayloadDone
        BY <1>3, PartialInPayload
    <2> QED
        BY <1>3, <2>1, <2>2 DEF AsFraming!Extended
<1>4. CASE frame.op # "continuation"
    <2>1. m_data_msg.op = frame.op /\ m_data_msg.size = PayloadDone
        BY <1>1, <1>4 DEF IInv, Accepted
    <2>2. m_data_msg.size + m_bytes_needed = frame.size
        BY <1>2, <2>1, SMT DEF PayloadDone
    <2> QED
        BY <1>4, <2>1, <2>2 DEF AsFraming!Extended
<1> QED
    BY <1>3, <1>4

\* A message that is complete is no longer than it may be: its sum did not wrap,
\* because it is in memory.
LEMMA CompleteFits ==
    ASSUME IInv, m_state = "APPLICATION", frame.op \in Data, ~Short, ~Exhausted
    PROVE  m_data_msg.size + m_bytes_needed <= MaxMessage
<1>1. /\ m_current_msg = m_data_msg /\ m_data_msg.size \in Nat /\ Bytes = m_bytes_needed
      /\ m_bytes_needed \in Nat
    BY CurrentFacts, BytesFacts DEF IInv, TypeOK, Control, Data
<1>2. m_data_msg.size + m_bytes_needed < SizeModulus
    BY <1>1, SizeAssumption DEF Exhausted
<1>3. SizeT(m_data_msg.size + m_bytes_needed) <= MaxMessage
    BY DEF IInv, Accepted
<1> QED
    BY <1>2, <1>3 DEF SizeT

\* A frame that the processor reads to its end is one that Framing accepts, or
\* the end of a text message that is overlooked.
LEMMA CompleteIsAcceptable ==
    ASSUME IInv, reset_headers
    PROVE  /\ AsFraming!Acceptable \/ AsFraming!Overlooked
           /\ frame.op \in Control \/ ~frame.fin => AsFraming!Acceptable
<1>1. /\ session # "done" /\ m_state = "APPLICATION" /\ Bytes = m_bytes_needed
      /\ ~Exhausted /\ ~Short /\ ~DecodeFails /\ ~IncompleteText
    BY BytesFacts DEF IInv, reset_headers, In
<1>2. /\ frame.masked /\ ~frame.rsv /\ frame.op \in Control \cup Data
      /\ frame.op \in Control => frame.fin /\ frame.code = "basic"
      /\ frame.size \in Nat /\ frame.badAt \in Nat /\ frame.badAt <= frame.size
    BY <1>1, FrameFacts, SMT DEF IInv, Accepted, FrameType
<1>3. AsFraming!Minimal
    BY <1>1, <1>2, LimitAssumption, SMT DEF IInv, Accepted, AsFraming!Minimal,
        validate_incoming_extended_header
<1>4. ASSUME frame.op \in Data
      PROVE  /\ frame.op = "continuation" <=> Partial # None
             /\ AsFraming!Extended.size <= MaxMessage
             /\ AsFraming!Extended.op = "text" => frame.badAt = 0
             /\ AsFraming!EndsOnCodePoint \/ frame.op = "continuation"
             /\ ~frame.fin => AsFraming!EndsOnCodePoint
    <2>1. frame.op \notin Control
        BY <1>4 DEF Control, Data
    <2>2. frame.op = "continuation" <=> Partial # None
        BY <1>1, <2>1, PartialInPayload
    <2>3. AsFraming!Extended.size = m_data_msg.size + m_bytes_needed
          /\ AsFraming!Extended.op = m_data_msg.op
        BY <1>1, <2>1, SameMessage
    <2>4. AsFraming!Extended.size <= MaxMessage
        BY <1>1, <1>4, <2>3, CompleteFits
    <2>5. ASSUME m_data_msg.op = "text"
          PROVE  frame.badAt = 0
        <3>1. frame.badAt = 0 \/ frame.badAt > PayloadDone
            BY <1>1, <1>4, <2>5 DEF IInv, Accepted
        <3>2. frame.badAt \notin (PayloadDone + 1)..(PayloadDone + Bytes)
            BY <1>1, <2>1, <2>5 DEF DecodeFails, m_current_msg
        <3>3. PayloadDone + Bytes = frame.size /\ PayloadDone \in Nat /\ Bytes \in Nat
            BY <1>1, <1>2, CurrentFacts, SMT DEF PayloadDone, IInv, TypeOK
        <3> QED
            BY <1>2, <3>1, <3>2, <3>3, SMT
    <2>6. frame.op # "continuation" => AsFraming!Extended.op = frame.op
        BY DEF AsFraming!Extended
    <2>7. /\ AsFraming!EndsOnCodePoint \/ frame.op = "continuation"
          /\ ~frame.fin => AsFraming!EndsOnCodePoint
        BY <1>1, <2>6 DEF IncompleteText, AsFraming!EndsOnCodePoint
    <2> QED
        BY <2>2, <2>3, <2>4, <2>5, <2>7
<1>5. frame.op \in AsFraming!Control \cup AsFraming!Data
    BY <1>2 DEF AsFraming!Control, AsFraming!Data, Control, Data
<1>6. frame.op \in Control => AsFraming!EndsOnCodePoint
    BY DEF AsFraming!EndsOnCodePoint, AsFraming!Extended, Control
<1>7. AsFraming!WellFormed
    BY <1>2, <1>3, <1>4, <1>5 DEF AsFraming!WellFormed, AsFraming!Control, AsFraming!Data,
        Control, Data
<1> QED
    BY <1>2, <1>4, <1>6, <1>7 DEF AsFraming!Acceptable, AsFraming!Overlooked

\* What fails in the processor is refused by Framing, at every stage.
LEMMA FailureIsRefusal ==
    ASSUME IInv, BasicHeaderFails \/ ExtendedHeaderFails \/ PayloadFails \/ OutOfMemory
    PROVE  AsFraming!Next
<1>1. /\ session # "done" /\ session' = "done" /\ frame' = frame /\ handed' = handed
    BY DEF BasicHeaderFails, ExtendedHeaderFails, PayloadFails, OutOfMemory, In, Fail, streamVars
<1>2. Partial' = None
    BY <1>1 DEF Partial
<1>3. /\ frame \in FrameType /\ frame.size \in Nat
    BY FrameFacts DEF IInv
<1>4. ~AsFraming!Acceptable /\ ~AsFraming!Overlooked
    <2>1. CASE BasicHeaderFails
        <3>1. m_state # "APPLICATION" /\ ~validate_incoming_basic_header(frame)
            BY <2>1 DEF BasicHeaderFails, In
        <3>2. Partial # None <=> m_data_msg # None
            BY <1>1, <3>1, PartialInHeader
        <3> QED
            BY <3>1, <3>2 DEF AsFraming!Acceptable, AsFraming!Overlooked, AsFraming!WellFormed, validate_incoming_basic_header,
                ContinuationFits, Control, Data, AsFraming!Control, AsFraming!Data
    <2>2. CASE ExtendedHeaderFails
        <3>1. /\ m_state = "HEADER_EXTENDED"
              /\ ~validate_incoming_extended_header(frame) \/ ~FitsMessage(frame)
            BY <2>2 DEF ExtendedHeaderFails, In
        <3>2. CASE ~validate_incoming_extended_header(frame)
            BY <1>3, <3>2, LimitAssumption, SMT DEF AsFraming!Acceptable, AsFraming!Overlooked, AsFraming!WellFormed, AsFraming!Minimal,
                validate_incoming_extended_header
        <3>3. CASE ~FitsMessage(frame)
            <4>1. frame.op \in Data /\ (frame.op = "continuation" <=> m_data_msg # None)
                BY <3>1, <3>3 DEF FitsMessage, IInv, Accepted, ContinuationFits
            <4>2. CASE m_data_msg = None
                <5>1. AsFraming!Extended.size = frame.size /\ ~(frame.size <= MaxMessage)
                    BY <3>3, <4>1, <4>2 DEF AsFraming!Extended, FitsMessage
                <5> QED
                    BY <4>1, <5>1 DEF AsFraming!Acceptable, AsFraming!Overlooked, AsFraming!WellFormed, AsFraming!Data, Data
            <4>3. CASE m_data_msg # None
                <5>1. Partial.size = m_data_msg.size
                    BY <1>1, <3>1, <4>3, PartialInHeader
                <5>2. AsFraming!Extended.size = m_data_msg.size + frame.size
                    BY <4>1, <4>3, <5>1 DEF AsFraming!Extended
                <5>3. ~(SizeT(m_data_msg.size + frame.size) <= MaxMessage)
                    BY <3>3, <4>1, <4>3 DEF FitsMessage
                <5>4. m_data_msg.size \in Nat
                    BY <4>3 DEF IInv, TypeOK, DataMsg
                <5>5. ~(m_data_msg.size + frame.size <= MaxMessage)
                    BY <1>3, <5>3, <5>4, SizeAssumption, LimitAssumption DEF SizeT
                <5> QED
                    BY <4>1, <5>2, <5>5 DEF AsFraming!Acceptable, AsFraming!Overlooked, AsFraming!WellFormed, AsFraming!Data, Data
            <4> QED
                BY <4>2, <4>3
        <3> QED
            BY <3>1, <3>2, <3>3
    <2>3. CASE PayloadFails
        <3>1. m_state = "APPLICATION" /\ (DecodeFails \/ IncompleteText)
            BY <2>3 DEF PayloadFails, In
        <3>2. CASE DecodeFails
            <4>1. frame.op \notin Control
                BY <3>1, <3>2, CurrentFacts DEF DecodeFails, ControlMsg, Control
            <4>2. frame.op \in Data /\ AsFraming!Extended.op = "text"
                BY <1>1, <3>1, <3>2, <4>1, CurrentFacts, SameMessage DEF DecodeFails
            <4>3. frame.badAt # 0
                <5>1. PayloadDone \in Nat /\ Bytes \in Nat
                    BY <3>1, CurrentFacts, BytesFacts DEF IInv
                <5> QED
                    BY <3>2, <5>1, SMT DEF DecodeFails
            <4> QED
                BY <4>2, <4>3 DEF AsFraming!Acceptable, AsFraming!Overlooked, AsFraming!WellFormed, AsFraming!Data, Data
        <3>3. CASE IncompleteText
            <4>1. ~AsFraming!EndsOnCodePoint /\ frame.op # "continuation"
                BY <3>3 DEF IncompleteText, AsFraming!EndsOnCodePoint, AsFraming!Extended
            <4> QED
                BY <4>1 DEF AsFraming!Acceptable, AsFraming!Overlooked
        <3> QED
            BY <3>1, <3>2, <3>3
    <2>4. CASE OutOfMemory
        <3>1. m_state = "APPLICATION" /\ Exhausted
            BY <2>4 DEF OutOfMemory, In
        <3>2. /\ Bytes \in Nat /\ m_bytes_needed \in Nat /\ Bytes <= m_bytes_needed
              /\ m_current_msg.size \in Nat
            BY <3>1, BytesFacts, CurrentFacts DEF IInv, TypeOK
        <3>3. m_current_msg.size + m_bytes_needed > MaxMemory
            BY <3>1, <3>2, SizeAssumption DEF Exhausted
        <3>4. frame.op \notin Control
            <4>1. SUFFICES ASSUME frame.op \in Control PROVE FALSE
                OBVIOUS
            <4>2. frame.code = "basic" /\ frame.size <= PayloadBasic
                BY <3>1, <4>1, FrameAssumption DEF IInv, Accepted, TypeOK
            <4>3. m_current_msg.size + m_bytes_needed = frame.size
                BY <1>3, <3>1, <3>2, <4>1 DEF IInv, Accepted, m_current_msg, PayloadDone
            <4> QED
                BY <1>3, <3>3, <4>2, <4>3, SizeAssumption, LimitAssumption
        <3>5. frame.op \in Data /\ m_current_msg = m_data_msg
            BY <3>1, <3>4, CurrentFacts
        <3>6. AsFraming!Extended.size = m_data_msg.size + m_bytes_needed
            BY <1>1, <3>1, <3>4, SameMessage
        <3>7. ~(AsFraming!Extended.size <= MaxMessage)
            BY <3>2, <3>3, <3>5, <3>6, SizeAssumption, LimitAssumption
        <3> QED
            BY <3>5, <3>7 DEF AsFraming!Acceptable, AsFraming!Overlooked, AsFraming!WellFormed,
                AsFraming!Data, Data
    <2> QED
        BY <2>1, <2>2, <2>3, <2>4
<1> QED
    BY <1>1, <1>2, <1>4 DEF AsFraming!Next, AsFraming!Refuse

LEMMA FragmentRefines ==
    ASSUME IInv, FragmentRead
    PROVE  AsFraming!Next
<1>1. /\ session # "done" /\ m_state = "APPLICATION" /\ Bytes = m_bytes_needed /\ ~frame.fin
      /\ reset_headers /\ m_data_msg' = Extended /\ m_state' = "HEADER_BASIC"
      /\ session' = session /\ handed' = handed /\ frame' \in Frame
    BY BytesFacts DEF IInv, FragmentRead, reset_headers, In
<1>2. AsFraming!Acceptable
    BY <1>1, CompleteIsAcceptable
<1>3. frame.op \in Data /\ frame.op \notin Control
    BY <1>1, CurrentFacts DEF IInv, Accepted
<1>4. /\ m_data_msg' \in DataMsg /\ m_data_msg' # None
      /\ m_data_msg'.op = m_data_msg.op /\ m_data_msg'.size = m_data_msg.size + m_bytes_needed
    BY <1>1, <1>3, ExtendedFacts, CurrentFacts, NoneAssumption
<1>5. Partial' = AsFraming!Extended
    BY <1>1, <1>3, <1>4, SameMessage DEF Partial
<1> QED
    BY <1>1, <1>2, <1>3, <1>5
       DEF AsFraming!Next, AsFraming!TakeFragment, AsFraming!Data, Data

LEMMA MessageRefines ==
    ASSUME IInv, MessageRead
    PROVE  AsFraming!Next
<1>1. /\ session # "done" /\ m_state = "APPLICATION" /\ Bytes = m_bytes_needed
      /\ reset_headers /\ m_data_msg' = None /\ frame.fin /\ frame.op \in Data
      /\ handed' = IF session = "open" THEN Append(handed, Message) ELSE handed
      /\ session' = session /\ frame' \in Frame
    BY BytesFacts DEF IInv, MessageRead, reset_headers, In
<1>2. AsFraming!Acceptable \/ AsFraming!Overlooked
    BY <1>1, CompleteIsAcceptable
<1>3. frame.op \notin Control
    BY <1>1 DEF Control, Data
<1>4. Message = AsFraming!Extended
    BY <1>1, <1>3, ExtendedFacts, CurrentFacts, SameMessage DEF Message
<1>5. Partial' = None
    BY <1>1 DEF Partial
<1> QED
    BY <1>1, <1>2, <1>4, <1>5 DEF AsFraming!Next, AsFraming!TakeLast, AsFraming!Data, Data

LEMMA ControlRefines ==
    ASSUME IInv, ControlRead
    PROVE  AsFraming!Next
<1>1. /\ session # "done" /\ m_state = "APPLICATION" /\ Bytes = m_bytes_needed
      /\ reset_headers /\ m_data_msg' = m_data_msg /\ frame.op \in Control
      /\ m_state' = "HEADER_BASIC" /\ frame' \in Frame
      /\ handed' = IF session = "open" \/ frame.op = "close"
                   THEN Append(handed, Message) ELSE handed
      /\ session' = IF frame.op = "close" THEN "closing" ELSE session
    BY BytesFacts DEF IInv, ControlRead, reset_headers, In
<1>2. AsFraming!Acceptable
    BY <1>1, CompleteIsAcceptable
<1>3. Message = [op |-> frame.op, size |-> frame.size]
    <2>1. m_control_msg.op = frame.op /\ m_control_msg.size = PayloadDone
        BY <1>1 DEF IInv, Accepted
    <2>2. PayloadDone + m_bytes_needed = frame.size
        BY FrameFacts, SMT DEF IInv, TypeOK, PayloadDone
    <2> QED
        BY <1>1, <2>1, <2>2, ExtendedFacts, CurrentFacts DEF Message
<1>4. Partial' = Partial
    <2>1. session' # "done"
        BY <1>1
    <2> QED
        BY <1>1, <2>1, PartialInControl DEF Partial
<1> QED
    BY <1>1, <1>2, <1>3, <1>4
       DEF AsFraming!Next, AsFraming!TakeControl, AsFraming!Control, Control

\* Bytes that do not end a frame change nothing for Framing.
LEMMA PieceIsStutter ==
    ASSUME IInv, IInv',
           \/ copy_basic_header_bytes \/ BasicHeaderRead \/ copy_extended_header_bytes
           \/ ExtendedHeaderRead \/ process_payload_bytes \/ ReadOn
           \/ \E n \in 1..BufferSize : Read(n)
           \/ UNCHANGED vars
    PROVE  UNCHANGED AsFraming!vars
<1>1. frame' = frame /\ session' = session /\ handed' = handed
    BY DEF copy_basic_header_bytes, BasicHeaderRead, copy_extended_header_bytes,
           ExtendedHeaderRead, process_payload_bytes, ReadOn, Read, Advance, vars,
           streamVars
<1>2. Partial' = Partial
    <2>1. CASE session = "done"
        BY <1>1, <2>1 DEF Partial
    <2>2. CASE session # "done" /\ (copy_basic_header_bytes \/ BasicHeaderRead \/ copy_extended_header_bytes)
        <3>1. m_state # "APPLICATION" /\ m_state' # "APPLICATION" /\ m_data_msg' = m_data_msg
            BY <2>2 DEF copy_basic_header_bytes, BasicHeaderRead, copy_extended_header_bytes, In
        <3> QED
            BY <1>1, <3>1 DEF Partial
    <2>3. CASE session # "done" /\ (ReadOn \/ UNCHANGED vars \/ \E n \in 1..BufferSize : Read(n))
        BY <1>1, <2>3 DEF Partial, PayloadDone, ReadOn, Read, vars, processorVars
    <2>4. CASE session # "done" /\ ExtendedHeaderRead
        <3>1. /\ m_state = "HEADER_EXTENDED" /\ m_state' = "APPLICATION"
              /\ m_bytes_needed' = frame.size
            BY <2>4 DEF ExtendedHeaderRead, In
        <3>2. CASE frame.op \in Control
            BY <1>1, <2>4, <3>1, <3>2 DEF Partial, ExtendedHeaderRead
        <3>3. CASE frame.op \notin Control
            <4>1. frame.op \in Data /\ (frame.op = "continuation" <=> m_data_msg # None)
                BY <3>1, <3>3, FrameFacts
                   DEF IInv, Accepted, ContinuationFits, FrameType
            <4>2. CASE m_data_msg = None
                BY <1>1, <2>4, <3>1, <3>3, <4>1, <4>2 DEF Partial, ExtendedHeaderRead
            <4>3. CASE m_data_msg # None
                <5>1. m_data_msg' = [m_data_msg EXCEPT !.key = 0] /\ m_data_msg \in DataMsg
                    BY <2>4, <3>3, <4>3
                       DEF ExtendedHeaderRead, prepared_key, IInv, TypeOK
                <5>2. /\ m_data_msg'.op = m_data_msg.op /\ m_data_msg'.size = m_data_msg.size
                      /\ m_data_msg' # None /\ m_data_msg.size \in Nat
                    BY <5>1, NoneAssumption DEF DataMsg
                <5>3. PayloadDone' = 0
                    BY <1>1, <3>1, FrameFacts, SMT DEF PayloadDone, IInv
                <5>4. m_data_msg'.size - PayloadDone' = m_data_msg.size
                    BY <5>2, <5>3, SMT
                <5>5. Partial' = [op |-> m_data_msg.op, size |-> m_data_msg.size]
                    BY <1>1, <2>4, <3>1, <3>3, <4>1, <4>3, <5>2, <5>4 DEF Partial
                <5> QED
                    BY <2>4, <3>1, <4>3, <5>5, PartialInHeader
            <4> QED
                BY <4>2, <4>3
        <3> QED
            BY <3>2, <3>3
    <2>5. CASE session # "done" /\ process_payload_bytes
        <3>1. m_state = "APPLICATION" /\ m_state' = "APPLICATION"
              /\ m_bytes_needed' = m_bytes_needed - Bytes
            BY <2>5 DEF process_payload_bytes, In
        <3>2. CASE frame.op \in Control
            BY <1>1, <2>5, <3>1, <3>2 DEF Partial, process_payload_bytes
        <3>3. CASE frame.op \notin Control
            <4>1. /\ m_data_msg \in DataMsg /\ m_data_msg' \in DataMsg
                  /\ m_data_msg'.op = m_data_msg.op
                  /\ m_data_msg'.size = m_data_msg.size + Bytes
                BY <2>5, <3>1, <3>3, CurrentFacts, ExtendedFacts DEF process_payload_bytes
            <4>2. m_data_msg'.size - PayloadDone' = m_data_msg.size - PayloadDone
                <5>1. m_data_msg.size \in Nat /\ Bytes \in Nat /\ m_bytes_needed \in Nat
                      /\ frame.size \in Nat
                    BY <4>1, BytesFacts, FrameFacts DEF DataMsg, IInv, TypeOK
                <5> QED
                    BY <1>1, <3>1, <4>1, <5>1, SMT DEF PayloadDone
            <4> QED
                BY <1>1, <3>1, <3>3, <4>1, <4>2, NoneAssumption DEF Partial
        <3> QED
            BY <3>2, <3>3
    <2> QED
        BY <2>1, <2>2, <2>3, <2>4, <2>5
<1> QED
    BY <1>1, <1>2 DEF AsFraming!vars

\* However the stream is cut into reads, the reader makes of it what Framing
\* makes of its frames (consume and handle_read_frame).
THEOREM ReaderIsFraming == Spec => IsFraming
<1>1. Init => AsFraming!Init
    BY DEF Init, AsFraming!Init, Partial
<1>2. ASSUME IInv, IInv', [Next]_vars
      PROVE  [AsFraming!Next]_AsFraming!vars
    <2>1. CASE BasicHeaderFails \/ ExtendedHeaderFails \/ PayloadFails \/ OutOfMemory
        BY <1>2, <2>1, FailureIsRefusal
    <2>2. CASE FragmentRead
        BY <1>2, <2>2, FragmentRefines
    <2>3. CASE MessageRead
        BY <1>2, <2>3, MessageRefines
    <2>4. CASE ControlRead
        BY <1>2, <2>4, ControlRefines
    <2> QED
        BY <1>2, <2>1, <2>2, <2>3, <2>4, PieceIsStutter DEF Next, consume
<1> QED
    BY <1>1, <1>2, Inductive, PTL DEF Spec, IsFraming, AsFraming!Spec
-----------------------------------------------------------------------------
(* The end of the loop, and what it hands out.                             *)

\* The iterations of consume() that are left of a read are at most this many:
\* one for every byte, and one for the end of each frame that needs no more.
WorkLeft == 2 * avail + (IF m_state = "APPLICATION" THEN 1 ELSE 0)

\* Every iteration is one less, unless it is the last because the frame is
\* refused.
IterationShortens == consume => session' = "done" \/ WorkLeft' < WorkLeft

\* The field that is being read lacks bytes, except where a payload is
\* complete or empty.
LEMMA HeaderNeeds ==
    ASSUME IInv, m_state \in {"HEADER_BASIC", "HEADER_EXTENDED"}
    PROVE  m_bytes_needed > 0
  BY DEF IInv, Aligned, TypeOK, BasicHeaderLength

\* In a header an iteration consumes a byte at least.
LEMMA HeaderBytes ==
    ASSUME IInv, MoreToDo, m_bytes_needed > 0
    PROVE  Bytes > 0
  BY DEF IInv, TypeOK, MoreToDo, Bytes

\* consume() comes to an end of every read, however the frames lie in it: an
\* iteration consumes a byte or leaves a payload (the loop in
\* handle_read_frame goes on while bytes are left or none is needed), so a
\* read of n bytes takes 2n + 1 iterations at most, and n is bounded by the
\* buffer.
THEOREM ReadsAreWorkedOff ==
    Spec => /\ [](WorkLeft \in 0..(2 * BufferSize + 1))
            /\ [][IterationShortens]_vars
  <1>1. Init => avail <= BufferSize
    BY LimitAssumption DEF Init
  <1>2. IInv /\ avail <= BufferSize /\ [Next]_vars => (avail <= BufferSize)'
    <2> SUFFICES ASSUME IInv, avail <= BufferSize, [Next]_vars
                 PROVE  (avail <= BufferSize)'
      OBVIOUS
    <2>1. avail \in Nat /\ BufferSize \in Nat /\ Bytes \in Nat /\ avail - Bytes \in Nat
      BY BytesFacts, LimitAssumption DEF IInv, TypeOK
    <2>2. ASSUME NEW n \in 1..BufferSize, Read(n) PROVE (avail <= BufferSize)'
      BY <2>1, <2>2 DEF Read
    <2>3. CASE consume
      <3>1. avail' = avail \/ avail' = avail - Bytes
        BY <2>3 DEF consume, copy_basic_header_bytes, BasicHeaderRead, BasicHeaderFails,
           copy_extended_header_bytes, ExtendedHeaderRead, ExtendedHeaderFails,
           process_payload_bytes, PayloadFails, OutOfMemory, FragmentRead, MessageRead, ControlRead,
           reset_headers, Advance, Fail
      <3> QED BY <2>1, <3>1
    <2>4. CASE ReadOn \/ UNCHANGED vars
      BY <2>4 DEF ReadOn, vars
    <2> QED BY <2>2, <2>3, <2>4 DEF Next
  <1>3. IInv /\ avail <= BufferSize => WorkLeft \in 0..(2 * BufferSize + 1)
    BY LimitAssumption DEF IInv, TypeOK, WorkLeft
  <1>4. IInv /\ [Next]_vars => [IterationShortens]_vars
    <2> SUFFICES ASSUME IInv, consume PROVE session' = "done" \/ WorkLeft' < WorkLeft
      BY DEF IterationShortens
    <2>1. avail \in Nat /\ Bytes \in Nat /\ avail - Bytes \in Nat
      BY BytesFacts DEF IInv, TypeOK
    <2>2. CASE BasicHeaderFails \/ ExtendedHeaderFails \/ PayloadFails \/ OutOfMemory
      BY <2>2 DEF BasicHeaderFails, ExtendedHeaderFails, PayloadFails, OutOfMemory, Fail
    <2>3. CASE copy_basic_header_bytes \/ BasicHeaderRead
               \/ copy_extended_header_bytes \/ ExtendedHeaderRead
      <3>1. m_state \in {"HEADER_BASIC", "HEADER_EXTENDED"} /\ MoreToDo
        BY <2>3 DEF copy_basic_header_bytes, BasicHeaderRead,
           copy_extended_header_bytes, ExtendedHeaderRead, In
      <3>2. Bytes > 0
        BY <3>1, HeaderNeeds, HeaderBytes
      <3>3. avail' = avail - Bytes
        BY <2>3 DEF copy_basic_header_bytes, BasicHeaderRead,
           copy_extended_header_bytes, ExtendedHeaderRead, Advance
      <3> QED BY <2>1, <3>1, <3>2, <3>3 DEF WorkLeft
    <2>4. CASE process_payload_bytes
      <3>1. /\ m_state = "APPLICATION" /\ MoreToDo /\ Short
            /\ m_state' = m_state /\ avail' = avail - Bytes
        BY <2>4 DEF process_payload_bytes, In, Advance
      <3>2. m_bytes_needed > 0
        BY <3>1 DEF IInv, TypeOK, Short, Bytes
      <3>3. Bytes > 0
        BY <3>1, <3>2, HeaderBytes
      <3> QED BY <2>1, <3>1, <3>3 DEF WorkLeft
    <2>5. CASE FragmentRead \/ MessageRead \/ ControlRead
      <3>1. m_state = "APPLICATION" /\ m_state' = "HEADER_BASIC" /\ avail' = avail - Bytes
        BY <2>5 DEF FragmentRead, MessageRead, ControlRead, reset_headers, In
      <3> QED BY <2>1, <3>1 DEF WorkLeft
    <2> QED BY <2>2, <2>3, <2>4, <2>5 DEF consume
  <1> QED BY <1>1, <1>2, <1>3, <1>4, Inductive, PTL DEF Spec

\* What is handed out is as long as it may be, and the application gets
\* nothing behind a close frame.
WithinLimits(m) == m.size <= IF m.op \in Control THEN PayloadBasic ELSE MaxMessage
HandedIsLegal ==
    /\ \A i \in DOMAIN handed : WithinLimits(handed[i])
    /\ \A i, j \in DOMAIN handed :
           i < j /\ handed[i].op = "close" => handed[j].op = "close"

\* Why: no close frame was handed out while the connection is open.
OpenUntilClose ==
    session = "open" => \A i \in DOMAIN handed : handed[i].op # "close"

\* A message is handed out that the session allows.
LEMMA HandOut ==
    ASSUME IInv, HandedIsLegal, OpenUntilClose,
           NEW m \in Handed, WithinLimits(m), handed' = Append(handed, m),
           session = "open" \/ m.op = "close",
           session' = "open" => session = "open" /\ m.op # "close"
    PROVE  HandedIsLegal' /\ OpenUntilClose'
  <1>1. /\ Len(handed) \in Nat /\ DOMAIN handed = 1..Len(handed)
        /\ DOMAIN handed' = 1..(Len(handed) + 1)
        /\ \A i \in DOMAIN handed' :
               handed'[i] = IF i = Len(handed) + 1 THEN m ELSE handed[i]
    BY DEF IInv, TypeOK
  <1>2. \A i \in DOMAIN handed' : WithinLimits(handed'[i])
    BY <1>1 DEF HandedIsLegal
  <1>3. ASSUME NEW i \in DOMAIN handed', NEW j \in DOMAIN handed',
               i < j, handed'[i].op = "close"
        PROVE  handed'[j].op = "close"
    <2>1. i \in DOMAIN handed /\ handed[i].op = "close"
      BY <1>1, <1>3
    <2>2. session # "open"
      BY <2>1 DEF OpenUntilClose
    <2> QED BY <1>1, <1>3, <2>1, <2>2 DEF HandedIsLegal
  <1>4. \A i \in DOMAIN handed' : WithinLimits(handed[i])' <=> WithinLimits(handed'[i])
    BY DEF WithinLimits
  <1>5. OpenUntilClose'
    BY <1>1 DEF OpenUntilClose
  <1> QED BY <1>2, <1>3, <1>4, <1>5 DEF HandedIsLegal

\* A message that is complete is as long as its header and the fragments
\* before it said.
LEMMA MessageFits ==
    ASSUME IInv, m_state = "APPLICATION", ~Short, ~Exhausted
    PROVE  /\ Message \in Handed /\ WithinLimits(Message)
           /\ frame.op \in Control => Message.op = frame.op
           /\ frame.op \notin Control => Message.op \notin Control
  <1>1. /\ Message.op = m_current_msg.op
        /\ Message.size = m_current_msg.size + m_bytes_needed
        /\ Message \in Handed
    BY ExtendedFacts, BytesFacts, MessageFacts DEF Message, IInv
  <1>2. CASE frame.op \in Control
    <2>1. frame.code = "basic" /\ frame.size <= PayloadBasic
      BY <1>2, FrameAssumption DEF IInv, Accepted, TypeOK
    <2>2. m_current_msg.op = frame.op /\ m_current_msg.size = PayloadDone
      BY <1>2 DEF IInv, Accepted, m_current_msg
    <2>3. PayloadDone + m_bytes_needed = frame.size
      BY FrameFacts DEF IInv, TypeOK, PayloadDone
    <2> QED BY <1>1, <1>2, <2>1, <2>2, <2>3 DEF WithinLimits
  <1>3. CASE frame.op \notin Control
    <2>1. frame.op \in Data /\ m_current_msg = m_data_msg /\ m_data_msg \in DataMsg
      BY <1>3, CurrentFacts
    <2>2. m_data_msg.size + m_bytes_needed <= MaxMessage
      BY <2>1, CompleteFits
    <2>3. m_data_msg.op \notin Control
      BY <2>1 DEF DataMsg, Control
    <2> QED BY <1>1, <1>3, <2>1, <2>2, <2>3 DEF WithinLimits
  <1> QED BY <1>2, <1>3

\* Whatever the peer sends, in whatever pieces: no message that exceeds the
\* limit of the connection reaches on_message (the check of the extended
\* header, m_max_message_size), no control frame carries more than 125 bytes,
\* and once a close frame was handed to process_control_frame no message, ping
\* or pong is handed out, although the bytes behind it are still consumed.
THEOREM HandedOutIsLegal == Spec => []HandedIsLegal
  <1>1. Init => HandedIsLegal /\ OpenUntilClose
    BY DEF Init, HandedIsLegal, OpenUntilClose
  <1>2. IInv /\ HandedIsLegal /\ OpenUntilClose /\ [Next]_vars
            => HandedIsLegal' /\ OpenUntilClose'
    <2> SUFFICES ASSUME IInv, HandedIsLegal, OpenUntilClose, [Next]_vars
                 PROVE  HandedIsLegal' /\ OpenUntilClose'
      OBVIOUS
    <2>1. ASSUME UNCHANGED handed, session' = "open" => session = "open"
          PROVE  HandedIsLegal' /\ OpenUntilClose'
      BY <2>1 DEF HandedIsLegal, OpenUntilClose, WithinLimits
    <2>2. CASE MessageRead /\ session = "open"
      <3>1. m_state = "APPLICATION" /\ ~Short /\ ~Exhausted /\ frame.op \in Data
        BY <2>2 DEF MessageRead, reset_headers, In
      <3>2. frame.op \notin Control
        BY <3>1 DEF Data, Control
      <3>3. Message.op # "close"
        BY <3>1, <3>2, MessageFits DEF Control
      <3> QED BY <2>2, <3>1, <3>2, <3>3, MessageFits, HandOut DEF MessageRead
    <2>3. CASE ControlRead /\ (session = "open" \/ frame.op = "close")
      <3>1. m_state = "APPLICATION" /\ ~Short /\ ~Exhausted /\ frame.op \in Control
        BY <2>3 DEF ControlRead, reset_headers, In
      <3>2. Message.op = frame.op
        BY <3>1, MessageFits
      <3> QED BY <2>3, <3>1, <3>2, MessageFits, HandOut DEF ControlRead
    <2>4. CASE MessageRead /\ session # "open"
      BY <2>1, <2>4 DEF MessageRead
    <2>5. CASE ControlRead /\ ~(session = "open" \/ frame.op = "close")
      BY <2>1, <2>5 DEF ControlRead
    <2>6. CASE consume /\ ~MessageRead /\ ~ControlRead
      <3>1. UNCHANGED handed /\ session' \in {session, "done"}
        BY <2>6 DEF consume, copy_basic_header_bytes, BasicHeaderRead, BasicHeaderFails,
           copy_extended_header_bytes, ExtendedHeaderRead, ExtendedHeaderFails,
           process_payload_bytes, PayloadFails, OutOfMemory, FragmentRead, Fail
      <3> QED BY <2>1, <3>1
    <2>7. CASE ReadOn \/ (\E n \in 1..BufferSize : Read(n)) \/ UNCHANGED vars
      BY <2>1, <2>7 DEF ReadOn, Read, vars
    <2> QED BY <2>2, <2>3, <2>4, <2>5, <2>6, <2>7 DEF Next
  <1> QED BY <1>1, <1>2, Inductive, PTL DEF Spec
=============================================================================
