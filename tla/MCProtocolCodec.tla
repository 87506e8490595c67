-------------------------- MODULE MCProtocolCodec ---------------------------
(* ProtocolCodec for TLC: up to two frames, then nothing, a part of a      *)
(* frame, a frame above the limit, or a length that cannot be one.         *)
EXTENDS ProtocolCodec

Frame(payload) == [version |-> 1, type |-> 2, request_id |-> 3, payload |-> payload]

Frames == SeqOf({Frame(<<>>), Frame(<<0>>), Frame(<<0, 3>>)}, 2)

Tails ==
  {<<>>, <<0>>, SubSeq(Encode(Frame(<<0, 3>>)), 1, 4), Encode(Frame(<<3, 3, 3>>)),
   BigEndian(FIXED_BODY_SIZE - 1) \o <<1, 2>>, BigEndian(Width - 1) \o <<1>>,
   BigEndian(Width - LengthBytes) \o <<1>>}

SmallStreams == [frames : Frames, tail : Tails]

====
