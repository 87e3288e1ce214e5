----------------------------- MODULE PortSound ------------------------------
(***************************************************************************)
(* Sound of the ports: the WAV reader and the mixer of Butterscotch        *)
(* (ports/butterscotch/platform/audio.c) and the mixer of Doom             *)
(* (ports/doom/platform/demonos_sound.c).                                  *)
(*                                                                         *)
(* A clip is a sequence of samples (both channels of a frame are alike     *)
(* until gain and pan), a voice plays one.  s.heard is history: what every *)
(* sound that was started has added to the output, before its gain.        *)
(* FULL is a gain of one (256 in the code), TOP the largest sample, ONE    *)
(* one source sample of Doom's fixed-point position, WRAP where that       *)
(* position, an unsigned 32-bit number, wraps, in source samples.          *)
(***************************************************************************)
EXTENDS Integers, Sequences, SequencesExt, FiniteSets, FiniteSetsExt

CONSTANTS Mixers, VOICES, Sounds, Volumes, FULL, TOP, IDS, Frames, STARTS, RENDERS,
          Rates, OUT_RATE, ONE, WRAP, Waves

VARIABLE s

Quotient(a, b) == IF a < 0 THEN -((-a) \div b) ELSE a \div b
clamp_sample(v) == IF v > TOP THEN TOP ELSE IF v < -TOP - 1 THEN -TOP - 1 ELSE v

-----------------------------------------------------------------------------
(* WAV: the chunks are walked to the end of the file, the last `fmt' and   *)
(* the last `data' count; w.cut bytes are missing at the end.              *)
ChunkBytes(c) == 8 + c.size + (c.size % 2)
WaveBytes(w) == 12 + FoldLeft(LAMBDA n, c : n + ChunkBytes(c), 0, w.chunks) - w.cut
Walk(w) ==
  FoldLeft(LAMBDA a, c :
             IF ~a.ok \/ a.at + 8 > WaveBytes(w) THEN a
             ELSE IF a.at + ChunkBytes(c) > WaveBytes(w) \/ (c.tag = "fmt " /\ c.size < 16) THEN [a EXCEPT !.ok = FALSE]
             ELSE [a EXCEPT !.at = @ + ChunkBytes(c), !.fmt = IF c.tag = "fmt " THEN c ELSE @, !.data = IF c.tag = "data" THEN c ELSE @],
           [ok |-> w.riff + 8 <= WaveBytes(w), at |-> 12, fmt |-> <<>>, data |-> <<>>], w.chunks)
Sample(bytes, at, bits) ==
  IF bits = 8 THEN (bytes[at] - 128) * 256
  ELSE LET u == bytes[at] + 256 * bytes[at + 1] IN IF u >= 32768 THEN u - 65536 ELSE u
DemonButterscotchAudio_decodePcmWav(w, capacity) ==
  LET a == Walk(w)
      f == a.fmt
      align == f.channels * (f.bits \div 8)
      source == a.data.size \div align
      requested == (source * OUT_RATE + f.rate - 1) \div f.rate
      At(frame) == LET n == (frame * f.rate) \div OUT_RATE IN IF n >= source THEN source - 1 ELSE n
      Left(frame) == At(frame) * align + 1
  IN  IF ~a.ok \/ f = <<>> \/ a.data = <<>> THEN <<>>
      ELSE IF f.channels \notin {1, 2} \/ f.bits \notin {8, 16} \/ f.rate = 0 \/ a.data.size = 0 \/ f.align # align THEN <<>>
      ELSE IF a.data.size % align # 0 \/ requested = 0 \/ requested > capacity THEN <<>>
      ELSE [i \in 1..requested |->
              <<Sample(a.data.bytes, Left(i - 1), f.bits),
                Sample(a.data.bytes, Left(i - 1) + (IF f.channels = 2 THEN f.bits \div 8 ELSE 0), f.bits)>>]

-----------------------------------------------------------------------------
(* Butterscotch's mixer.                                                   *)
Idle == [active |-> FALSE, id |-> 0, clip |-> <<>>, pos |-> 0, loop |-> FALSE, paused |-> FALSE, gain |-> 0, pan |-> 0, sound |-> 0, step |-> 0]
Heard(t, n, x) == [t EXCEPT !.heard[n] = Append(@, x)]
Started(t, i, voice) ==
  [t EXCEPT !.voices[i] = [voice EXCEPT !.sound = Len(t.heard) + 1], !.heard = Append(@, <<>>),
            !.sounds = Append(@, [clip |-> voice.clip, loop |-> voice.loop, step |-> voice.step]), !.ended = Append(@, "no")]
Ended(t, i, how) ==
  [t EXCEPT !.voices[i].active = FALSE, !.ended[t.voices[i].sound] = IF t.voices[i].active THEN how ELSE @]

(* The id 0 is skipped when the counter wraps.                             *)
DemonButterscotchMixer_play(t, clip, loop, v) ==
  LET Free == {i \in 1..VOICES : ~t.voices[i].active}
      id == IF t.nextId = 0 THEN 1 ELSE t.nextId
  IN  IF Free = {} THEN t
      ELSE [Started(t, Min(Free), [Idle EXCEPT !.active = TRUE, !.id = id, !.clip = clip, !.loop = loop, !.gain = v[1], !.pan = v[2]])
              EXCEPT !.nextId = (id + 1) % IDS]
find_voice(t, id) == {i \in 1..VOICES : t.voices[i].active /\ t.voices[i].id = id}
DemonButterscotchMixer_stop(t, i) == Ended(t, i, "stopped")
DemonButterscotchMixer_pause(t, i, paused) == [t EXCEPT !.voices[i].paused = paused]

LeftGain(v) == Quotient(v.gain * (IF v.pan > 0 THEN FULL - v.pan ELSE FULL), FULL)
RightGain(v) == Quotient(v.gain * (IF v.pan < 0 THEN FULL + v.pan ELSE FULL), FULL)
Mixed(out, frame, v, x) ==
  [out EXCEPT ![frame] = <<clamp_sample(@[1] + Quotient(x * LeftGain(v), FULL)), clamp_sample(@[2] + Quotient(x * RightGain(v), FULL))>>]
(* One frame of voice i.                                                   *)
VoiceFrame(t, i, frame) ==
  LET v == t.voices[i]
      end == v.pos = Len(v.clip)
      at == IF end THEN 0 ELSE v.pos
      x == v.clip[at + 1]
  IN  IF ~v.active \/ v.paused THEN t
      ELSE IF end /\ ~v.loop THEN Ended(t, i, "played")
      ELSE Heard([t EXCEPT !.voices[i].pos = at + 1, !.out = Mixed(@, frame, v, x)], v.sound, x)
Steps(n) == [i \in 1..n |-> i]
DemonButterscotchMixer_render(t, n) ==
  FoldLeft(LAMBDA a, i : FoldLeft(LAMBDA b, frame : VoiceFrame(b, i, frame), a, Steps(n)),
           [t EXCEPT !.out = [f \in 1..n |-> <<0, 0>>]], Steps(VOICES))

-----------------------------------------------------------------------------
(* Doom's mixer.  A channel is restarted in place; the samples of all      *)
(* channels, panned by their separation, are summed before they are cut.   *)
sound_start(t, i, clip, rate, v) ==
  LET step == (rate * ONE) \div OUT_RATE
      a == IF t.voices[i].active THEN Ended(t, i, "stopped") ELSE t
  IN  Started(a, i, [Idle EXCEPT !.active = TRUE, !.clip = clip, !.step = IF step = 0 THEN 1 ELSE step, !.gain = v[1], !.pan = v[3]])
sound_stop(t, i) == IF t.voices[i].active THEN Ended(t, i, "stopped") ELSE t
sound_params(t, i, v) == [t EXCEPT !.voices[i].gain = v[1], !.voices[i].pan = v[3]]
ChannelFrame(t, i, frame) ==
  LET v == t.voices[i]
      at == v.pos \div ONE
      x == v.clip[at + 1]
      Gained(n) == Quotient(x * n * v.gain, FULL * FULL)
  IN  IF ~v.active THEN t
      ELSE IF at >= Len(v.clip) THEN Ended(t, i, "played")
      ELSE Heard([t EXCEPT !.voices[i].pos = (@ + v.step) % (ONE * WRAP), 
                         !.sum[frame] = <<@[1] + Gained(FULL - v.pan), @[2] + Gained(v.pan)>>], v.sound, at + 1)
sound_update(t, n) ==
  LET a == FoldLeft(LAMBDA b, frame : FoldLeft(LAMBDA c, i : ChannelFrame(c, i, frame), b, Steps(VOICES)),
                    [t EXCEPT !.sum = [f \in 1..n |-> <<0, 0>>]], Steps(n))
  IN  IF \A i \in 1..VOICES : ~t.voices[i].active THEN t
      ELSE [a EXCEPT !.out = [f \in 1..n |-> <<clamp_sample(a.sum[f][1]), clamp_sample(a.sum[f][2])>>], !.sum = <<>>]

-----------------------------------------------------------------------------
(* What a buffer should hold, voice by voice: the samples that come next,  *)
(* times the gain, which the pan lowers on the other side.                 *)
Due(t, n) ==
  LET Adds(i, f) == LET v == t.voices[i]
                        x == v.clip[((v.pos + f - 1) % Len(v.clip)) + 1]
                    IN  IF ~v.active \/ v.paused \/ (~v.loop /\ v.pos + f > Len(v.clip)) THEN <<0, 0>>
                        ELSE <<Quotient(x * LeftGain(v), FULL), Quotient(x * RightGain(v), FULL)>>
  IN  [f \in 1..n |-> [i \in 1..VOICES |-> Adds(i, f)]]

Init == s \in {[mixer |-> m, voices |-> [i \in 1..VOICES |-> Idle], nextId |-> 1, heard |-> <<>>, sounds |-> <<>>, ended |-> <<>>,
                out |-> <<>>, due |-> <<>>, sum |-> <<>>, renders |-> 0, wave |-> <<>>, decoded |-> <<>>] : m \in Mixers}
Decode == /\ s.mixer = "wave" /\ s.wave = <<>>
          /\ \E w \in Waves, capacity \in {1, 4, 99} :
               s' = [s EXCEPT !.wave = <<w, capacity>>, !.decoded = DemonButterscotchAudio_decodePcmWav(w, capacity)]
Butterscotch ==
  /\ s.mixer = "butterscotch"
  /\ \/ \E clip \in Sounds, loop \in BOOLEAN, v \in Volumes :
          Len(s.heard) < STARTS /\ s' = DemonButterscotchMixer_play(s, clip, loop, v)
     \/ \E id \in 1..IDS - 1, i \in 1..VOICES :
          /\ i \in find_voice(s, id)
          /\ \/ s' = DemonButterscotchMixer_stop(s, i)
             \/ \E paused \in BOOLEAN : s' = DemonButterscotchMixer_pause(s, i, paused)
     \/ \E n \in Frames : s.renders < RENDERS /\ s' = [DemonButterscotchMixer_render(s, n) EXCEPT !.renders = @ + 1, !.due = Due(s, n)]
Doom ==
  /\ s.mixer = "doom"
  /\ \/ \E i \in 1..VOICES, clip \in Sounds, rate \in Rates, v \in Volumes :
          Len(s.heard) < STARTS /\ s' = sound_start(s, i, clip, rate, v)
     \/ \E i \in 1..VOICES, v \in Volumes : s.voices[i].active /\ (s' = sound_stop(s, i) \/ s' = sound_params(s, i, v))
     \/ \E n \in Frames : s.renders < RENDERS /\ s' = [sound_update(s, n) EXCEPT !.renders = @ + 1]
Next == Decode \/ Butterscotch \/ Doom

-----------------------------------------------------------------------------
(* Every sound is heard in order and without a gap from one buffer to the  *)
(* next: a loop starts over after its last sample; a sound that was not    *)
(* stopped ends when it has been heard to its end, and no sooner.  In      *)
(* Doom's mixer this needs a sound shorter than the range of the position. *)
SoundsPlayThrough ==
  \A n \in DOMAIN s.heard :
    LET c == s.sounds[n].clip
        h == s.heard[n]
    IN  IF s.mixer = "butterscotch"
        THEN /\ \A i \in DOMAIN h : h[i] = c[((i - 1) % Len(c)) + 1]
             /\ ~s.sounds[n].loop => Len(h) <= Len(c)
             /\ s.ended[n] = "played" => ~s.sounds[n].loop /\ Len(h) = Len(c)
        ELSE Len(c) + 2 <= WRAP =>
             /\ \A i \in DOMAIN h : h[i] = ((i - 1) * s.sounds[n].step) \div ONE + 1
             /\ s.ended[n] = "played" => Len(h) * s.sounds[n].step >= Len(c) * ONE

(* A buffer is the sum of what its voices are due, cut to the range of a   *)
(* sample where they exceed it.                                            *)
BuffersAreTheSum ==
  \A f \in DOMAIN s.due : \A side \in {1, 2} :
    LET Sum(u) == FoldLeft(LAMBDA a, x : a + x[side], 0, u)
        Loud(u) == FoldLeft(LAMBDA a, x : a + (IF x[side] < 0 THEN -x[side] ELSE x[side]), 0, u)
    IN  /\ s.out[f][side] \in -TOP - 1..TOP
        /\ Loud(s.due[f]) <= TOP => s.out[f][side] = Sum(s.due[f])

(* An id names one voice, the one that was started with it: a stop or a    *)
(* pause reaches no other sound, before the counter has wrapped.           *)
IdsNameOneVoice ==
  s.mixer = "butterscotch" /\ Len(s.heard) < IDS =>
    \A i \in 1..VOICES : s.voices[i].active => /\ s.voices[i].id # 0 /\ s.voices[i].id = s.voices[i].sound
                                               /\ find_voice(s, s.voices[i].id) = {i}

(* A decoded file plays each sample at its time: output frame k is the     *)
(* source frame that is playing k / OUT_RATE seconds in, up to the end of  *)
(* the sound, every byte read lies in the data chunk, and the file has     *)
(* that chunk whole.                                                       *)
DecodedWavesKeepTime ==
  s.decoded # <<>> =>
    LET f == Last(SelectSeq(s.wave[1].chunks, LAMBDA c : c.tag = "fmt "))
        d == Last(SelectSeq(s.wave[1].chunks, LAMBDA c : c.tag = "data"))
        n == d.size \div f.align
        Played(k, i) == i * OUT_RATE <= k * f.rate /\ k * f.rate < (i + 1) * OUT_RATE
        Is(x, at) == x = IF f.bits = 8 THEN (d.bytes[at] - 128) * 256 ELSE Sample(d.bytes, at, 16)
    IN  /\ Len(s.decoded) * f.rate >= n * OUT_RATE /\ (Len(s.decoded) - 1) * f.rate < n * OUT_RATE
        /\ Len(s.decoded) <= s.wave[2] /\ s.wave[1].cut <= d.size % 2
        /\ \A k \in DOMAIN s.decoded : \E i \in 0..n - 1 :
             Played(k - 1, i) /\ Is(s.decoded[k][1], i * f.align + 1) /\ Is(s.decoded[k][2], (i + 1) * f.align - (f.bits \div 8) + 1)
=============================================================================
