-------------------------- MODULE StreamRing_proofs -------------------------
(***************************************************************************)
(* The streaming ring of cave-audio is the ordered channel of samples that *)
(* a voice expects, for every size of ring, chunk, block and file: the     *)
(* invariant StreamIInv is inductive, every step of the three threads is a *)
(* step of SampleChannel or none of its business, and a voice ends only at *)
(* the end of what was supplied.                                           *)
(***************************************************************************)
EXTENDS StreamRingInv, WellFoundedInduction, TLAPS

-----------------------------------------------------------------------------
(* Types, per group of variables. *)

StType == [state : States, loop : BOOLEAN, r : 0 .. PosMax, w : 0 .. PosMax + Ring,
           eof : {None} \cup 0 .. PosMax + Ring]
ThrType == [pc : {"top", "look", "r", "w", "eof", "go", "fill", "chunk", "end", "wait", "timed", "forever", "out"},
            loop : BOOLEAN, done : BOOLEAN, dec : 0 .. FileLen, target : 0 .. PosMax + Ring]
VoiceType == [bound : BOOLEAN, playing : BOOLEAN, pos : 0 .. PosMax, loop : BOOLEAN]
AudType == [pc : {"idle", "load", "copy", "store", "ended", "off"}, w : 0 .. PosMax + Ring, buf : Seq(Samples)]
CtlType == [pc : {"idle", "restart", "signal", "bind", "closed", "push", "stop", "stopped", "join", "gone"},
            loop : BOOLEAN, space : 0 .. Ring, plays : 0 .. Plays, retire : {"no", "sent", "acked", "done"}]
RestOK == /\ push \in Kinds /\ wpriv \in 0 .. PosMax + Ring /\ ring \in [0 .. Ring - 1 -> Samples]
          /\ wake \in BOOLEAN /\ stop \in BOOLEAN /\ cmd \in Seq(Commands) /\ Len(cmd) <= Plays + 2
          /\ Len(aud.buf) <= Block

\* The type invariant, group by group.
LEMMA TypeParts ==
    TypeOK <=>
        RestOK /\ st \in StType /\ thr \in ThrType /\ voice \in VoiceType /\ aud \in AudType /\ ctl \in CtlType
BY DEF TypeOK, RestOK, StType, ThrType, VoiceType, AudType, CtlType

LEMMA TypePartsPrime ==
    TypeOK' <=>
        RestOK' /\ st' \in StType /\ thr' \in ThrType /\ voice' \in VoiceType /\ aud' \in AudType /\ ctl' \in CtlType
BY DEF TypeOK, RestOK, StType, ThrType, VoiceType, AudType, CtlType

LEMMA LenType ==
    TypeOK => Len(aud.buf) \in Nat /\ Len(cmd) \in Nat /\ (aud.buf = <<>> <=>
        Len(aud.buf) = 0)
BY DEF TypeOK

LEMMA Sizes ==
    /\ Ring \in Nat /\ Ring > 0 /\ Chunk \in Nat /\ Chunk > 0 /\ Block \in Nat /\ Block > 0
    /\ FileLen \in Nat /\ FileLen > 0 /\ Plays \in Nat /\ PosMax \in Nat
BY StreamAssumption

LEMMA Ints ==
    TypeOK => /\ st.r \in Nat /\ st.w \in Nat /\ st.eof \in Int /\ wpriv \in Nat
              /\ thr.dec \in Nat /\ thr.target \in Nat /\ voice.pos \in Nat /\ aud.w \in Nat
              /\ ctl.space \in Nat /\ ctl.plays \in Nat
BY StreamAssumption DEF TypeOK, None

-----------------------------------------------------------------------------
(* What each action does to the fields of the records it changes. *)

LEMMA ResetDoes ==
    ASSUME TypeOK, Reset
    PROVE  /\ UNCHANGED <<push, wpriv, ring, wake, stop, cmd, voice, aud, ctl>>
           /\ st'.loop = st.loop
           /\ \A f \in {"loop", "done", "dec", "target"} : thr'[f] = thr[f]
           /\ \/ /\ thr.pc = "r" /\ thr'.pc = "w"
                 /\ st'.r = 0 /\ st'.w = st.w /\ st'.eof = st.eof /\ st'.state = st.state
              \/ /\ thr.pc = "w" /\ thr'.pc = "eof"
                 /\ st'.r = st.r /\ st'.w = 0 /\ st'.eof = st.eof /\ st'.state = st.state
              \/ /\ thr.pc = "eof" /\ thr'.pc = "go"
                 /\ st'.r = st.r /\ st'.w = st.w /\ st'.eof = None /\ st'.state = st.state
              \/ /\ thr.pc = "go" /\ thr'.pc = "fill"
                 /\ st'.r = st.r /\ st'.w = st.w /\ st'.eof = st.eof /\ st'.state = "active"
<1>1. st \in StType /\ thr \in ThrType
  BY TypeParts
<1>2. UNCHANGED <<push, wpriv, ring, wake, stop, cmd, voice, aud, ctl>>
  BY DEF Reset, audVars
<1>3. CASE Thr("r", "w") /\ Store("r", 0)
  BY <1>1, <1>2, <1>3 DEF Thr, Store, StType, ThrType
<1>4. CASE Thr("w", "eof") /\ Store("w", 0)
  BY <1>1, <1>2, <1>4 DEF Thr, Store, StType, ThrType
<1>5. CASE Thr("eof", "go") /\ Store("eof", None)
  BY <1>1, <1>2, <1>5 DEF Thr, Store, StType, ThrType
<1>6. CASE Thr("go", "fill") /\ Store("state", "active")
  BY <1>1, <1>2, <1>6 DEF Thr, Store, StType, ThrType
<1> QED BY <1>3, <1>4, <1>5, <1>6 DEF Reset

LEMMA WakeDoes ==
    ASSUME TypeOK, Wake
    PROVE  /\ UNCHANGED <<push, st, wpriv, ring, stop, cmd, voice, aud, ctl>> /\ wake' = FALSE
           /\ thr.pc \in {"timed", "forever"} /\ thr'.pc = "top"
           /\ \A f \in {"loop", "done", "dec", "target"} : thr'[f] = thr[f]
BY TypeParts DEF Wake, Thr, audVars, ThrType

LEMMA FillChunkDoes ==
    ASSUME TypeOK, FillChunk
    PROVE  /\ UNCHANGED <<push, wake, stop, cmd, voice, aud, ctl>>
           /\ thr.pc = "chunk"
           /\ \A f \in {"state", "loop", "r", "eof"} : st'[f] = st[f]
           /\ \A f \in {"loop", "done", "target"} : thr'[f] = thr[f]
           /\ \/ /\ wpriv >= thr.target /\ UNCHANGED <<st, wpriv, ring>>
                 /\ thr'.pc = "wait" /\ thr'.dec = thr.dec
              \/ \E want, got \in Nat :
                    /\ wpriv + want <= thr.target /\ want <= Chunk
                    /\ got <= want /\ got <= FileLen - thr.dec
                    /\ got < want => got = FileLen - thr.dec
                    /\ ring' = Write(wpriv, got) /\ wpriv' = wpriv + got /\ st'.w = wpriv + got
                    /\ \/ thr'.pc = "end" /\ got < want /\ ~thr.loop
                       \/ thr'.pc = "chunk"
                    /\ \/ thr'.dec = thr.dec + got
                       \/ thr'.dec = 0 /\ thr.loop
<1> USE StreamAssumption
<1>1. st \in StType /\ thr \in ThrType /\ wpriv \in Nat
  BY TypeParts DEF RestOK
<1>2. UNCHANGED <<push, wake, stop, cmd, voice, aud, ctl>> /\ thr.pc = "chunk"
  BY DEF FillChunk, audVars
<1>3. CASE wpriv >= thr.target
  BY <1>1, <1>2, <1>3 DEF FillChunk, StType, ThrType
<1>4. CASE ~(wpriv >= thr.target)
  <2> DEFINE want == Smaller(thr.target - wpriv, Chunk)
             got == Smaller(want, FileLen - thr.dec)
  <2>1. /\ ring' = Write(wpriv, got) /\ wpriv' = wpriv + got /\ Store("w", wpriv + got)
        /\ thr' = [thr EXCEPT !.pc = IF got < want /\ ~thr.loop THEN "end" ELSE "chunk",
                              !.dec = IF got < want /\ thr.loop THEN 0 ELSE thr.dec + got]
    BY <1>1, <1>4 DEF FillChunk, ThrType
  <2>2. /\ want \in Nat /\ got \in Nat /\ wpriv + want <= thr.target /\ want <= Chunk
        /\ got <= want /\ got <= FileLen - thr.dec /\ (got < want => got = FileLen - thr.dec)
    BY <1>1, <1>4 DEF Smaller, ThrType
  <2> HIDE DEF want, got
  <2>3. /\ \A f \in {"state", "loop", "r", "eof"} : st'[f] = st[f]
        /\ st'.w = wpriv + got
    BY <1>1, <2>1 DEF Store, StType
  <2>4. /\ \A f \in {"loop", "done", "target"} : thr'[f] = thr[f]
        /\ (thr'.pc = "end" /\ got < want /\ ~thr.loop) \/ thr'.pc = "chunk"
        /\ thr'.dec = thr.dec + got \/ (thr'.dec = 0 /\ thr.loop)
    BY <1>1, <2>1 DEF ThrType
  <2> QED BY <1>2, <2>1, <2>2, <2>3, <2>4
<1> QED BY <1>3, <1>4

LEMMA BeginBlockDoes ==
    ASSUME TypeOK, BeginBlock
    PROVE  /\ UNCHANGED <<push, st, wpriv, ring, wake, stop, thr>> /\ cmd' = <<>> /\ Len(cmd') = 0
           /\ aud.pc = "idle" /\ aud'.w = aud.w /\ aud'.buf = aud.buf
           /\ \/ aud'.pc = "load" /\ voice'.playing /\ voice'.pos + Block <= PosMax
              \/ aud'.pc = "idle"
           /\ \/ cmd = <<>> /\ voice' = voice /\ voice.playing /\ ctl' = ctl
              \/ /\ \E k \in 1 .. Len(cmd) : cmd[k].t = "retire"
                 /\ voice'.bound = FALSE /\ voice'.playing = FALSE
                 /\ voice'.pos = voice.pos /\ voice'.loop = voice.loop
                 /\ ctl'.retire = "acked" /\ \A f \in {"pc", "loop", "space", "plays"} : ctl'[f] = ctl[f]
              \/ /\ Len(cmd) > 0 /\ \A k \in 1 .. Len(cmd) : cmd[k].t = "play"
                 /\ voice'.bound = TRUE /\ voice'.playing = TRUE
                 /\ voice'.pos = 0 /\ voice'.loop = cmd[Len(cmd)].loop
                 /\ ctl' = ctl
<1> DEFINE retired == \E k \in 1 .. Len(cmd) : cmd[k].t = "retire"
           bound == IF cmd = <<>> THEN voice
                    ELSE IF retired THEN [voice EXCEPT !.bound = FALSE, !.playing = FALSE]
                    ELSE [bound |-> TRUE, playing |-> TRUE, pos |-> 0, loop |-> cmd[Len(cmd)].loop]
<1>1. aud \in AudType /\ cmd \in Seq(Commands)
  BY TypeParts DEF RestOK
<1>2. /\ UNCHANGED <<push, st, wpriv, ring, wake, stop, thr>> /\ cmd' = <<>> /\ Len(cmd') = 0 /\ aud.pc = "idle"
      /\ cmd # <<>> \/ voice.playing
      /\ voice' = bound
      /\ aud' = [aud EXCEPT !.pc = IF bound.playing /\ bound.pos + Block <= PosMax THEN "load" ELSE "idle"]
      /\ ctl' = IF retired THEN [ctl EXCEPT !.retire = "acked"] ELSE ctl
  BY DEF BeginBlock
<1>3. /\ aud'.w = aud.w /\ aud'.buf = aud.buf
      /\ \/ aud'.pc = "load" /\ voice'.playing /\ voice'.pos + Block <= PosMax
         \/ aud'.pc = "idle"
  <2> HIDE DEF bound
  <2> QED BY <1>1, <1>2 DEF AudType
<1>4. CASE cmd = <<>>
  <2>1. ~retired
    BY <1>4
  <2> QED BY <1>2, <1>3, <1>4, <2>1
<1>5. CASE cmd # <<>> /\ retired
  <2>1. /\ voice'.bound = FALSE /\ voice'.playing = FALSE
        /\ voice'.pos = voice.pos /\ voice'.loop = voice.loop
        /\ ctl'.retire = "acked" /\ \A f \in {"pc", "loop", "space", "plays"} : ctl'[f] = ctl[f]
    BY <1>2, <1>5, TypeParts DEF VoiceType, CtlType
  <2> QED BY <1>2, <1>3, <1>5, <2>1
<1>6. CASE cmd # <<>> /\ ~retired
  <2>1. Len(cmd) > 0 /\ \A k \in 1 .. Len(cmd) : cmd[k].t = "play"
    <3>1. \A k \in 1 .. Len(cmd) : cmd[k] \in Commands /\ cmd[k].t # "retire"
      BY <1>1, <1>6
    <3>2. Len(cmd) > 0
      BY <1>1, <1>6
    <3> QED BY <3>1, <3>2 DEF Commands
  <2> QED BY <1>2, <1>3, <1>6, <2>1
<1> QED BY <1>4, <1>5, <1>6

LEMMA PullCopyDoes ==
    ASSUME TypeOK, PullCopy
    PROVE  /\ UNCHANGED <<push, st, wpriv, ring, wake, stop, thr, cmd, voice, ctl>>
           /\ aud.pc = "copy" /\ aud'.pc = "store" /\ aud'.w = aud.w
           /\ \E got \in 0 .. Block :
                 /\ got = 0 \/ voice.pos + got <= aud.w
                 /\ aud'.buf = [k \in 1 .. got |-> ring[(voice.pos + k - 1) % Ring]]
                 /\ Len(aud'.buf) = got /\ (got = 0 => aud'.buf = <<>>)
<1> USE StreamAssumption
<1>1. aud \in AudType /\ voice \in VoiceType
  BY TypeParts
<1> DEFINE got == Got(IF aud.w > voice.pos THEN aud.w - voice.pos ELSE 0)
           heard == [k \in 1 .. got |-> ring[(voice.pos + k - 1) % Ring]]
<1>2. aud' = [aud EXCEPT !.pc = "store", !.buf = heard]
  BY DEF PullCopy
<1>3. got \in 0 .. Block /\ (got = 0 \/ voice.pos + got <= aud.w)
  BY <1>1 DEF Got, Smaller, AudType, VoiceType
<1>4. Len(heard) = got /\ (got = 0 => heard = <<>>)
  <2> HIDE DEF got
  <2> QED BY <1>3
<1> HIDE DEF got, heard
<1>5. aud'.pc = "store" /\ aud'.w = aud.w /\ aud'.buf = heard
  BY <1>1, <1>2 DEF AudType
<1> QED BY <1>3, <1>4, <1>5 DEF PullCopy, heard

LEMMA PullStoreDoes ==
    ASSUME TypeOK, PullStore
    PROVE  /\ UNCHANGED <<push, wpriv, ring, wake, stop, thr, cmd, voice, ctl>>
           /\ aud.pc = "store" /\ aud'.pc = "ended" /\ aud'.w = aud.w /\ aud'.buf = aud.buf
           /\ \A f \in {"state", "loop", "w", "eof"} : st'[f] = st[f]
           /\ st'.r = IF aud.buf = <<>> THEN st.r ELSE voice.pos + Len(aud.buf)
<1>1. aud \in AudType /\ st \in StType
  BY TypeParts
<1>2. CASE aud.buf = <<>>
  BY <1>1, <1>2 DEF PullStore, AudType
<1>3. CASE aud.buf # <<>>
  BY <1>1, <1>3 DEF PullStore, Store, AudType, StType
<1> QED BY <1>2, <1>3

LEMMA EndBlockDoes ==
    ASSUME TypeOK, EndBlock
    PROVE  /\ UNCHANGED <<push, st, wpriv, ring, wake, stop, thr, cmd, ctl>>
           /\ aud.pc = "ended" /\ aud'.pc = "idle" /\ aud'.w = aud.w /\ aud'.buf = aud.buf
           /\ voice'.pos = voice.pos + Len(aud.buf) /\ voice'.bound = voice.bound /\ voice'.loop = voice.loop
           /\ voice'.playing = ~Ended(voice.pos + Len(aud.buf))
<1>1. aud \in AudType /\ voice \in VoiceType
  BY TypeParts
<1> QED BY <1>1 DEF EndBlock, AudType, VoiceType

\* A command is sent behind those in the queue.
LEMMA Sent ==
    ASSUME NEW s \in Seq(Commands), NEW c \in Commands
    PROVE  /\ Append(s, c) \in Seq(Commands) /\ Len(Append(s, c)) = Len(s) + 1
           /\ \A k \in 1 .. Len(s) + 1 : Append(s, c)[k] = IF k <= Len(s) THEN s[k] ELSE c
OBVIOUS

LEMMA StartBindDoes ==
    ASSUME TypeOK, StartBind
    PROVE  /\ UNCHANGED <<push, st, wpriv, ring, wake, stop, thr, voice, aud>>
           /\ ctl.pc = "bind" /\ ctl'.pc = "idle" /\ \A f \in {"loop", "space", "plays", "retire"} : ctl'[f] = ctl[f]
           /\ \/ cmd' = cmd
              \/ /\ cmd' \in Seq(Commands) /\ Len(cmd') = Len(cmd) + 1
                 /\ \A k \in 1 .. Len(cmd') :
                        \/ k \in 1 .. Len(cmd) /\ cmd'[k] = cmd[k]
                        \/ cmd'[k].t = "play" /\ cmd'[k].loop = ctl.loop
<1>1. ctl \in CtlType /\ cmd \in Seq(Commands) /\ Len(cmd) \in Nat
  BY TypeParts, LenType DEF RestOK
<1>2. [t |-> "play", loop |-> ctl.loop] \in Commands
  BY <1>1 DEF CtlType, Commands
<1>5. ctl.pc = "bind" /\ ctl'.pc = "idle" /\ \A f \in {"loop", "space", "plays", "retire"} : ctl'[f] = ctl[f]
  BY <1>1 DEF StartBind, Ctl, CtlType
<1>3. CASE cmd' = Append(cmd, [t |-> "play", loop |-> ctl.loop])
  <2>1. /\ cmd' \in Seq(Commands) /\ Len(cmd') = Len(cmd) + 1
        /\ \A k \in 1 .. Len(cmd) + 1 : cmd'[k] = IF k <= Len(cmd) THEN cmd[k] ELSE [t |-> "play", loop |-> ctl.loop]
    BY <1>1, <1>2, <1>3, Sent
  <2> QED BY <1>1, <1>5, <2>1 DEF StartBind, audVars
<1>4. CASE UNCHANGED cmd
  BY <1>4, <1>5 DEF StartBind, audVars
<1> QED BY <1>3, <1>4 DEF StartBind

LEMMA UnloadDoes ==
    ASSUME TypeOK, Unload
    PROVE  /\ UNCHANGED <<push, st, wpriv, ring, wake, stop, thr, voice, aud>>
           /\ ctl.pc = "idle" /\ ctl.retire = "no" /\ ctl'.retire = "sent"
           /\ \A f \in {"pc", "loop", "space", "plays"} : ctl'[f] = ctl[f]
           /\ cmd' \in Seq(Commands) /\ Len(cmd') = Len(cmd) + 1
           /\ \A k \in 1 .. Len(cmd') :
                  \/ k \in 1 .. Len(cmd) /\ cmd'[k] = cmd[k]
                  \/ cmd'[k].t = "retire" /\ cmd'[k].loop = FALSE
<1>1. cmd \in Seq(Commands) /\ Len(cmd) \in Nat
  BY TypeParts, LenType DEF RestOK
<1>2. [t |-> "retire", loop |-> FALSE] \in Commands
  BY DEF Commands
<1>3. cmd' = Append(cmd, [t |-> "retire", loop |-> FALSE])
  BY DEF Unload
<1>4. /\ cmd' \in Seq(Commands) /\ Len(cmd') = Len(cmd) + 1
      /\ \A k \in 1 .. Len(cmd) + 1 : cmd'[k] = IF k <= Len(cmd) THEN cmd[k] ELSE [t |-> "retire", loop |-> FALSE]
  BY <1>1, <1>2, <1>3, Sent
<1>5. /\ ctl.pc = "idle" /\ ctl.retire = "no" /\ ctl'.retire = "sent"
      /\ \A f \in {"pc", "loop", "space", "plays"} : ctl'[f] = ctl[f]
  BY TypeParts DEF Unload, Free, CtlType
<1> QED BY <1>1, <1>4, <1>5 DEF Unload, audVars

LEMMA StartLoopDoes ==
    ASSUME TypeOK, NEW loop \in BOOLEAN, StartLoop(loop)
    PROVE  /\ UNCHANGED <<push, wpriv, ring, wake, stop, thr, cmd, voice, aud>>
           /\ ~push /\ ctl.pc = "idle" /\ ctl.retire = "no" /\ ctl.plays < Plays
           /\ st'.loop = loop /\ \A f \in {"state", "r", "w", "eof"} : st'[f] = st[f]
           /\ ctl'.pc = "restart" /\ ctl'.loop = loop /\ ctl'.plays = ctl.plays + 1
           /\ ctl'.space = ctl.space /\ ctl'.retire = ctl.retire
BY TypeParts DEF StartLoop, Free, Store, audVars, StType, CtlType

LEMMA FillBeginDoes ==
    ASSUME TypeOK, FillBegin
    PROVE  /\ UNCHANGED <<push, st, wpriv, ring, wake, stop, cmd, voice, aud, ctl>>
           /\ thr.pc = "fill" /\ thr'.pc = "chunk" /\ thr'.target = st.r + Ring
           /\ \A f \in {"loop", "done", "dec"} : thr'[f] = thr[f]
BY TypeParts DEF FillBegin, Target, audVars, ThrType

LEMMA FillEndDoes ==
    ASSUME TypeOK, FillEnd
    PROVE  /\ UNCHANGED <<push, wpriv, ring, wake, stop, cmd, voice, aud, ctl>>
           /\ thr.pc = "end" /\ thr'.pc = "wait" /\ thr'.done = TRUE
           /\ \A f \in {"loop", "dec", "target"} : thr'[f] = thr[f]
           /\ st'.eof = wpriv /\ \A f \in {"state", "loop", "r", "w"} : st'[f] = st[f]
BY TypeParts DEF FillEnd, Store, audVars, StType, ThrType

LEMMA PushSpaceDoes ==
    ASSUME TypeOK, PushSpace
    PROVE  /\ UNCHANGED <<push, st, wpriv, ring, wake, stop, thr, cmd, voice, aud>>
           /\ push /\ st.eof = None /\ ctl.pc = "idle" /\ ctl.retire = "no"
           /\ ctl'.pc = "push" /\ ctl'.space = Ring - (wpriv - st.r)
           /\ \A f \in {"loop", "plays", "retire"} : ctl'[f] = ctl[f]
BY TypeParts DEF PushSpace, Free, audVars, CtlType

LEMMA PushWriteDoes ==
    ASSUME TypeOK, NEW n \in 1 .. Ring, PushWrite(n)
    PROVE  /\ UNCHANGED <<push, wake, stop, thr, cmd, voice, aud>>
           /\ ctl.pc = "push" /\ ctl'.pc = "idle" /\ ctl'.space = 0
           /\ \A f \in {"loop", "plays", "retire"} : ctl'[f] = ctl[f]
           /\ \A f \in {"state", "loop", "r", "eof"} : st'[f] = st[f]
           /\ \E put \in 0 .. Ring :
                 /\ put <= ctl.space /\ put <= n /\ wpriv + put <= PosMax
                 /\ ring' = Write(wpriv, put) /\ wpriv' = wpriv + put /\ st'.w = wpriv + put
<1> USE StreamAssumption
<1>1. st \in StType /\ ctl \in CtlType /\ wpriv \in Nat
  BY TypeParts DEF RestOK
<1> DEFINE put == Smaller(n, ctl.space)
<1>2. /\ ring' = Write(wpriv, put) /\ wpriv' = wpriv + put /\ Store("w", wpriv + put)
      /\ ctl' = [ctl EXCEPT !.pc = "idle", !.space = 0] /\ wpriv + n <= PosMax
      /\ UNCHANGED <<push, wake, stop, thr, cmd, voice, aud>> /\ ctl.pc = "push"
  BY DEF PushWrite, audVars
<1>3. put \in 0 .. Ring /\ put <= ctl.space /\ put <= n
  BY <1>1 DEF Smaller, CtlType
<1> HIDE DEF put
<1>4. \A f \in {"state", "loop", "r", "eof"} : st'[f] = st[f]
  BY <1>1, <1>2 DEF Store, StType
<1>5. st'.w = wpriv + put
  BY <1>1, <1>2 DEF Store, StType
<1>6. ctl'.pc = "idle" /\ ctl'.space = 0 /\ \A f \in {"loop", "plays", "retire"} : ctl'[f] = ctl[f]
  BY <1>1, <1>2 DEF CtlType
<1>7. wpriv + put <= PosMax
  BY <1>1, <1>2, <1>3
<1> QED BY <1>2, <1>3, <1>4, <1>5, <1>6, <1>7

-----------------------------------------------------------------------------
(* Roles and Queue: the actions that take more than their definition. *)

LEMMA StartLoopRoles == ASSUME TypeOK, Roles, NEW loop \in BOOLEAN, StartLoop(loop) PROVE Roles'
<1>1. ctl'.plays > 0
  BY Ints, StartLoopDoes
<1> QED BY <1>1, StartLoopDoes DEF Roles, Starting, Restarting, Filling

LEMMA BeginBlockRoles == ASSUME TypeOK, Roles, BeginBlock PROVE Roles'
<1>1. /\ UNCHANGED <<push, st, thr>> /\ ctl'.pc = ctl.pc /\ ctl'.plays = ctl.plays
      /\ \/ aud'.pc = "load" /\ voice'.playing /\ voice'.pos + Block <= PosMax
         \/ aud'.pc = "idle"
  BY BeginBlockDoes
<1> QED BY <1>1 DEF Roles, Starting, Restarting, Filling

LEMMA BeginBlockQueue == ASSUME TypeOK, Roles, Queue, BeginBlock PROVE Queue'
<1>1. /\ push' = push /\ Len(cmd') = 0 /\ ctl'.pc = ctl.pc /\ ctl'.plays = ctl.plays
      /\ \/ ctl'.retire = ctl.retire
         \/ ctl'.retire = "acked" /\ \E k \in 1 .. Len(cmd) : cmd[k].t = "retire"
  BY BeginBlockDoes
<1>2. ctl'.retire = ctl.retire \/ (ctl'.retire = "acked" /\ ctl.retire = "sent")
  BY <1>1 DEF Queue
<1>3. \A k \in 1 .. Len(cmd') : cmd'[k].t = "retire" => ctl'.retire = "sent"
  BY <1>1
<1>4. Len(cmd') <= Len(cmd)
  BY <1>1, LenType
<1>5. Starting' <=> Starting
  BY <1>1 DEF Starting
<1>6. Starting \/ ctl.pc = "push" => ctl'.retire = "no"
  BY <1>2 DEF Queue
<1>7. Len(cmd) + (IF Starting THEN 1 ELSE 0)
         <= ctl.plays + (IF push THEN 1 ELSE 0) + (IF ctl'.retire = "no" THEN 0 ELSE 1)
  BY <1>2 DEF Queue
<1>8. Len(cmd') + (IF Starting' THEN 1 ELSE 0)
         <= ctl'.plays + (IF push' THEN 1 ELSE 0) + (IF ctl'.retire = "no" THEN 0 ELSE 1)
  BY <1>1, <1>4, <1>5, <1>7, LenType, Ints
<1> QED BY <1>1, <1>3, <1>5, <1>6, <1>8 DEF Queue

LEMMA StartLoopQueue ==
    ASSUME TypeOK, Roles, Queue, NEW loop \in BOOLEAN, StartLoop(loop)
    PROVE  Queue'
<1>1. /\ UNCHANGED <<push, cmd>> /\ ctl.pc = "idle" /\ ctl'.pc = "restart"
      /\ ctl'.plays = ctl.plays + 1 /\ ctl'.retire = ctl.retire /\ ctl.retire = "no"
  BY StartLoopDoes
<1>2. ~Starting /\ Starting'
  BY <1>1 DEF Starting
<1> QED BY <1>1, <1>2, LenType, Ints DEF Queue

LEMMA StartBindQueue == ASSUME TypeOK, Roles, Queue, StartBind PROVE Queue'
<1>1. /\ push' = push /\ ctl.pc = "bind" /\ ctl'.pc = "idle"
      /\ ctl'.plays = ctl.plays /\ ctl'.retire = ctl.retire
      /\ \/ cmd' = cmd
         \/ /\ Len(cmd') = Len(cmd) + 1
            /\ \A k \in 1 .. Len(cmd') :
                   \/ k \in 1 .. Len(cmd) /\ cmd'[k] = cmd[k]
                   \/ cmd'[k].t = "play"
  BY StartBindDoes
<1>2. Starting /\ ~Starting'
  BY <1>1 DEF Starting
<1>3. \A k \in 1 .. Len(cmd') : cmd'[k].t = "retire" => ctl'.retire = "sent"
  BY <1>1 DEF Queue
<1>4. Len(cmd') + (IF Starting' THEN 1 ELSE 0)
         <= ctl'.plays + (IF push' THEN 1 ELSE 0) + (IF ctl'.retire = "no" THEN 0 ELSE 1)
  <2>1. Len(cmd') <= Len(cmd) + 1 /\ Len(cmd') \in Nat
    BY <1>1, LenType
  <2> QED BY <1>1, <1>2, <2>1, LenType, Ints DEF Queue
<1> QED BY <1>1, <1>2, <1>3, <1>4 DEF Queue

LEMMA UnloadQueue == ASSUME TypeOK, Roles, Queue, Unload PROVE Queue'
<1>1. /\ push' = push /\ ctl.pc = "idle" /\ ctl'.pc = "idle" /\ ctl'.plays = ctl.plays
      /\ ctl'.retire = "sent" /\ ctl.retire = "no" /\ Len(cmd') = Len(cmd) + 1
  BY UnloadDoes
<1>2. ~Starting /\ ~Starting'
  BY <1>1 DEF Starting
<1>3. Len(cmd') + (IF Starting' THEN 1 ELSE 0)
         <= ctl'.plays + (IF push' THEN 1 ELSE 0) + (IF ctl'.retire = "no" THEN 0 ELSE 1)
  BY <1>1, <1>2, LenType, Ints DEF Queue
<1> QED BY <1>1, <1>2, <1>3 DEF Queue

-----------------------------------------------------------------------------
(* Beginning and Pending. *)

\* The only start of a stream is its first.
LEMMA FirstStart ==
    ASSUME TypeOK, Once, NEW loop \in BOOLEAN, StartLoop(loop)
    PROVE  ctl.plays = 0 /\ ctl'.plays = 1
<1>1. ~push /\ ctl.plays < Plays /\ ctl'.plays = ctl.plays + 1
  BY StartLoopDoes
<1> QED BY <1>1, Ints, StreamAssumption DEF Once

LEMMA ResetBeginning ==
    ASSUME TypeOK, Roles, Once, Beginning, Pending, LoopFlag, Reset
    PROVE  Beginning'
<1>1. Restarting /\ ~push
  BY ResetDoes DEF Restarting, Roles
<1>2. /\ st.state # "active" /\ st.r = 0 /\ st.w = 0 /\ st.eof = None
      /\ wpriv = 0 /\ ~thr.done /\ ~Filling /\ voice.pos = 0 /\ aud.buf = <<>>
      /\ ctl.plays # 0 /\ ctl.pc # "restart"
  BY <1>1 DEF Beginning, Unbegun
<1>3. UNCHANGED <<push, wpriv, voice, aud, ctl>> /\ thr'.done = thr.done
  BY ResetDoes
<1>4. CASE thr.pc = "go"
  <2>1. thr'.pc = "fill" /\ st'.state = "active"
    BY <1>4, ResetDoes
  <2>2. ~Unbegun'
    BY <1>2, <1>3, <2>1 DEF Unbegun, Restarting
  <2> QED BY <1>2, <1>3, <2>2 DEF Beginning
<1>5. CASE thr.pc # "go"
  <2>1. thr'.pc \in {"w", "eof", "go"} /\ st'.state = st.state /\ st'.r = 0 /\ st'.w = 0 /\ st'.eof = None
    BY <1>2, <1>5, ResetDoes
  <2>2. ~Filling'
    BY <2>1 DEF Filling
  <2> QED BY <1>2, <1>3, <2>1, <2>2 DEF Beginning
<1> QED BY <1>4, <1>5

LEMMA PullCopyBeginning ==
    ASSUME TypeOK, Roles, Once, Beginning, Pending, Cursors, PullCopy
    PROVE  Beginning'
<1>1. /\ UNCHANGED <<push, st, wpriv, thr, voice, ctl>>
      /\ \E got \in 0 .. Block : /\ got = 0 \/ voice.pos + got <= aud.w
                                 /\ got = 0 => aud'.buf = <<>>
  BY PullCopyDoes
<1>2. Unbegun' <=> Unbegun
  BY <1>1 DEF Unbegun, Restarting
<1>3. ~push /\ Unbegun => aud'.buf = <<>>
  <2> SUFFICES ASSUME ~push, Unbegun PROVE aud'.buf = <<>>
    OBVIOUS
  <2>1. aud.w <= 0 /\ voice.pos = 0
    BY DEF Beginning, Cursors
  <2> QED BY <1>1, <2>1, Ints, StreamAssumption
<1> QED BY <1>1, <1>2, <1>3 DEF Beginning, Restarting, Filling

LEMMA StartLoopBeginning ==
    ASSUME TypeOK, Roles, Once, Beginning, NEW loop \in BOOLEAN, StartLoop(loop)
    PROVE  Beginning'
<1>1. ctl.plays = 0 /\ ctl'.plays = 1
  BY FirstStart
<1>2. /\ UNCHANGED <<push, wpriv, thr, voice, aud>> /\ ~push
      /\ \A f \in {"state", "r", "w", "eof"} : st'[f] = st[f]
  BY StartLoopDoes
<1> QED BY <1>1, <1>2 DEF Beginning, Unbegun, Restarting, Filling

LEMMA BeginBlockPending == ASSUME TypeOK, Roles, Queue, Once, Pending, BeginBlock PROVE Pending'
<1>1. /\ push' = push /\ Len(cmd') = 0 /\ ctl'.pc = ctl.pc /\ ctl'.plays = ctl.plays
      /\ \/ aud'.pc = "load" /\ voice'.playing
         \/ aud'.pc = "idle"
      /\ \/ voice' = voice /\ voice.playing
         \/ ~voice'.playing /\ voice'.pos = voice.pos
         \/ Len(cmd) > 0 /\ \A k \in 1 .. Len(cmd) : cmd[k].t = "play"
  BY BeginBlockDoes
<1>2. ~PlayQueued'
  BY <1>1 DEF PlayQueued
<1>3. (~push' /\ (ctl'.plays = 0 \/ Starting')) <=> (~push /\ (ctl.plays = 0 \/ Starting))
  BY <1>1 DEF Starting
<1>4. ASSUME ~push, ctl.plays = 0 \/ Starting
      PROVE  ~voice'.playing /\ voice'.pos = 0 /\ aud'.pc \in {"idle", "off"}
  <2>1. ~voice.playing /\ voice.pos = 0
    BY <1>4 DEF Pending, PlayPending
  <2>2. ~PlayQueued
    BY <1>4 DEF Pending
  <2>3. ~(Len(cmd) > 0 /\ \A k \in 1 .. Len(cmd) : cmd[k].t = "play")
    BY <2>2, LenType DEF PlayQueued
  <2> QED BY <1>1, <2>1, <2>3
<1> QED BY <1>2, <1>3, <1>4 DEF Pending, PlayPending

LEMMA StartLoopPending ==
    ASSUME TypeOK, Roles, Queue, Once, Pending, NEW loop \in BOOLEAN, StartLoop(loop)
    PROVE  Pending'
<1>1. ctl.plays = 0 /\ ctl'.plays = 1
  BY FirstStart
<1>2. UNCHANGED <<push, cmd, voice, aud>> /\ ~push
  BY StartLoopDoes
<1>3. ~PlayQueued /\ ~PlayQueued'
  BY <1>1, <1>2 DEF Pending, PlayQueued
<1>4. ~voice.playing /\ voice.pos = 0 /\ aud.pc \in {"idle", "off"}
  BY <1>1, <1>2 DEF Pending, PlayPending
<1> QED BY <1>2, <1>3, <1>4 DEF Pending

-----------------------------------------------------------------------------
(* The arithmetic of the ring, and what a write leaves in it. *)

LEMMA Slot == ASSUME NEW R \in Nat \ {0}, NEW a \in Nat PROVE a % R \in 0 .. R - 1
OBVIOUS

LEMMA Divided ==
    ASSUME NEW R \in Nat \ {0}, NEW a \in Nat
    PROVE  a = R * (a \div R) + (a % R) /\ a \div R \in Int
OBVIOUS

\* Two positions less than a ring apart have the same slot only when they are the same.
LEMMA OneOfARing ==
    ASSUME NEW R \in Nat \ {0}, NEW a \in Nat, NEW b \in Nat, a <= b, b < a + R, a % R = b % R
    PROVE  a = b
<1>1. a = R * (a \div R) + (a % R) /\ a \div R \in Int
  BY Divided
<1>2. b = R * (b \div R) + (b % R) /\ b \div R \in Int
  BY Divided
<1> DEFINE d == (b \div R) - (a \div R)
<1>3. b - a = R * d /\ d \in Int
  <2>0. a % R \in Int /\ b % R \in Int
    BY Slot
  <2> QED BY <1>1, <1>2, <2>0
<1> HIDE DEF d
<1>4. d < 1
  BY <1>3
<1>5. d > -1
  BY <1>3
<1> QED BY <1>3, <1>4, <1>5

\* The largest of some bounded numbers.
LEMMA MaxOfSome ==
    ASSUME NEW S, NEW lo \in Int, NEW hi \in Int, S \subseteq lo .. hi, S # {}
    PROVE  Max(S) \in S /\ \A y \in S : Max(S) >= y
<1> DEFINE T == {n \in Nat : hi - n \in S}
<1>1. T \subseteq Nat /\ T # {}
  <2>1. PICK x \in S : TRUE
    OBVIOUS
  <2>2. hi - x \in Nat /\ hi - (hi - x) = x
    OBVIOUS
  <2> QED BY <2>2
<1>2. PICK m \in T : \A n \in T : ~(<<n, m>> \in OpToRel(<, Nat))
  BY <1>1, NatLessThanWellFounded, WFMin
<1>3. \A n \in T : ~(n < m)
  BY <1>1, <1>2 DEF OpToRel
<1>4. hi - m \in S /\ \A y \in S : hi - m >= y
  <2>1. hi - m \in S
    OBVIOUS
  <2>2. ASSUME NEW y \in S PROVE hi - m >= y
    <3>1. hi - y \in T
      OBVIOUS
    <3>2. ~(hi - y < m)
      BY <3>1, <1>3
    <3> QED BY <3>2
  <2> QED BY <2>1, <2>2
<1> QED BY <1>4 DEF Max

\* What a write of n samples at a position leaves in the ring.
LEMMA Written ==
    ASSUME NEW from \in Nat, NEW n \in 0 .. Ring, ring \in [0 .. Ring - 1 -> Samples]
    PROVE  /\ Write(from, n) \in [0 .. Ring - 1 -> Samples]
           /\ \A q \in from .. from + n - 1 : Write(from, n)[q % Ring] = Frame(q)
           /\ \A k \in 0 .. Ring - 1 :
                  (\A q \in from .. from + n - 1 : q % Ring # k) => Write(from, n)[k] = ring[k]
<1> DEFINE S(k) == {q \in from .. from + n - 1 : q % Ring = k}
           W == Write(from, n)
<1>0. Ring \in Nat \ {0} /\ FileLen \in Nat \ {0}
  BY Sizes
<1>1. W = [k \in 0 .. Ring - 1 |-> IF S(k) = {} THEN ring[k] ELSE Frame(Max(S(k)))]
  BY DEF Write
<1>2. ASSUME NEW q \in from .. from + n - 1 PROVE S(q % Ring) = {q}
  <2>1. ASSUME NEW p \in S(q % Ring) PROVE p = q
    <3>1. p \in Nat /\ q \in Nat /\ p % Ring = q % Ring
      BY <1>0
    <3>2. CASE p <= q
      <4>1. q < p + Ring
        BY <1>0
      <4> QED BY <1>0, <3>1, <3>2, <4>1, OneOfARing
    <3>3. CASE q <= p
      <4>1. p < q + Ring
        BY <1>0
      <4> QED BY <1>0, <3>1, <3>3, <4>1, OneOfARing
    <3> QED BY <3>1, <3>2, <3>3
  <2>2. q \in S(q % Ring)
    OBVIOUS
  <2> HIDE DEF S
  <2> QED BY <2>1, <2>2
<1>3. ASSUME NEW q \in from .. from + n - 1 PROVE W[q % Ring] = Frame(q) /\ Frame(q) \in Samples
  <2>1. q \in Nat /\ q % Ring \in 0 .. Ring - 1 /\ Frame(q) \in 0 .. FileLen - 1
    <3>1. q \in Nat
      BY <1>0
    <3> QED BY <3>1, <1>0, Slot DEF Frame
  <2>2. Max({q}) = q
    <3>1. {q} \subseteq q .. q /\ {q} # {} /\ q \in Int
      BY <2>1
    <3>2. Max({q}) \in {q}
      BY <3>1, MaxOfSome
    <3> QED BY <3>2
  <2> HIDE DEF S, W
  <2>3. W[q % Ring] = IF S(q % Ring) = {} THEN ring[q % Ring] ELSE Frame(Max(S(q % Ring)))
    BY <1>1, <2>1
  <2> QED BY <1>2, <2>1, <2>2, <2>3 DEF Samples
<1>4. ASSUME NEW k \in 0 .. Ring - 1, S(k) = {} PROVE W[k] = ring[k] /\ ring[k] \in Samples
  <2> HIDE DEF S, W
  <2> QED BY <1>1, <1>4
<1>5. W \in [0 .. Ring - 1 -> Samples]
  <2>1. ASSUME NEW k \in 0 .. Ring - 1 PROVE W[k] \in Samples
    <3>1. CASE S(k) = {}
      BY <1>4, <3>1
    <3>2. CASE S(k) # {}
      <4>1. PICK q \in from .. from + n - 1 : q % Ring = k
        BY <3>2
      <4> HIDE DEF S, W
      <4> QED BY <1>3, <4>1
    <3> QED BY <3>1, <3>2
  <2> HIDE DEF S, W
  <2>2. W = [k \in 0 .. Ring - 1 |-> W[k]]
    BY <1>1
  <2> QED BY <2>1, <2>2
<1>6. ASSUME NEW k \in 0 .. Ring - 1, \A q \in from .. from + n - 1 : q % Ring # k PROVE W[k] = ring[k]
  <2>1. S(k) = {}
    BY <1>6
  <2> QED BY <2>1, <1>4
<1> QED BY <1>3, <1>5, <1>6

-----------------------------------------------------------------------------
(* Cursors, EndMark and LoopFlag. *)

LEMMA TakenType == ASSUME TypeOK PROVE Taken \in Nat /\ st.r + Ring \in Nat /\ Ring \in Nat
<1>1. voice.pos \in Nat /\ st.r \in Nat /\ Ring \in Nat /\ Len(aud.buf) \in Nat
  BY Ints, LenType, Sizes
<1> QED BY <1>1 DEF Taken

LEMMA BeginRestartCursors == ASSUME TypeOK, Roles, Beginning, Cursors, BeginRestart PROVE Cursors'
<1>1. /\ UNCHANGED <<push, st, voice, aud, ctl>> /\ ~push /\ st.state = "restart" /\ wpriv' = 0
  BY DEF BeginRestart, audVars
<1>2. thr'.pc = "r"
  BY TypeParts DEF BeginRestart, ThrType
<1>3. st.w = 0 /\ ctl.pc # "push"
  BY <1>1 DEF Beginning, Unbegun, Roles
<1> QED BY <1>1, <1>2, <1>3 DEF Cursors, Taken

LEMMA ResetCursors == ASSUME TypeOK, Roles, Beginning, Cursors, Reset PROVE Cursors'
<1>1. Restarting /\ ~push
  BY ResetDoes DEF Restarting, Roles
<1>2. st.r = 0 /\ st.w = 0 /\ ctl.pc # "push"
  BY <1>1 DEF Beginning, Unbegun, Roles
<1>3. UNCHANGED <<wpriv, voice, aud, ctl>> /\ st'.r = 0 /\ st'.w = 0 /\ thr'.pc # "chunk"
  BY <1>2, ResetDoes
<1> QED BY <1>2, <1>3 DEF Cursors, Taken

LEMMA FillBeginCursors == ASSUME TypeOK, Cursors, FillBegin PROVE Cursors'
<1>1. UNCHANGED <<st, wpriv, voice, aud, ctl>> /\ thr'.target = st.r + Ring
  BY FillBeginDoes
<1> QED BY <1>1, TakenType DEF Cursors, Taken

LEMMA FillChunkCursors == ASSUME TypeOK, Roles, Cursors, FillChunk PROVE Cursors'
<1>1. /\ UNCHANGED <<push, voice, aud, ctl>> /\ st'.r = st.r /\ thr'.target = thr.target /\ thr.pc = "chunk"
      /\ \/ wpriv' = wpriv /\ st'.w = st.w
         \/ wpriv' \in Nat /\ wpriv <= wpriv' /\ wpriv' <= thr.target /\ st'.w = wpriv'
  <2>1. CASE wpriv >= thr.target /\ UNCHANGED <<st, wpriv, ring>>
    BY <2>1, FillChunkDoes
  <2>2. CASE \E want, got \in Nat :
                 /\ wpriv + want <= thr.target /\ got <= want
                 /\ wpriv' = wpriv + got /\ st'.w = wpriv + got
    BY <2>2, FillChunkDoes, Ints
  <2> QED BY <2>1, <2>2, FillChunkDoes
<1>2. thr.target <= st.r + Ring /\ Taken' = Taken /\ ctl.pc # "push"
  BY <1>1 DEF Cursors, Taken, Roles, Filling
<1>3. wpriv' = st'.w /\ aud'.w <= st'.w /\ Taken' <= st'.w /\ st'.w <= st'.r + Ring
  BY <1>1, <1>2, Ints, TakenType DEF Cursors
<1> QED BY <1>1, <1>2, <1>3 DEF Cursors

LEMMA BeginBlockCursors ==
    ASSUME TypeOK, Roles, Queue, Once, Pending, Cursors, BeginBlock
    PROVE  Cursors' /\ Taken' = Taken
<1>1. /\ UNCHANGED <<st, wpriv, thr>> /\ ctl'.pc = ctl.pc /\ ctl'.space = ctl.space
      /\ aud.pc = "idle" /\ aud'.pc \in {"load", "idle"} /\ aud'.w = aud.w
      /\ \/ voice'.pos = voice.pos
         \/ Len(cmd) > 0 /\ (\A k \in 1 .. Len(cmd) : cmd[k].t = "play") /\ voice'.pos = 0
  BY BeginBlockDoes
<1>2. voice'.pos = voice.pos
  <2>1. ASSUME Len(cmd) > 0, \A k \in 1 .. Len(cmd) : cmd[k].t = "play" PROVE voice.pos = 0
    BY <2>1, LenType DEF Pending, PlayPending, PlayQueued
  <2> QED BY <1>1, <2>1
<1>3. Taken' = Taken
  BY <1>1, <1>2 DEF Taken
<1> QED BY <1>1, <1>3 DEF Cursors

LEMMA PullCopyCursors == ASSUME TypeOK, Cursors, PullCopy PROVE Cursors'
<1>1. /\ UNCHANGED <<st, wpriv, thr, voice, ctl>> /\ aud.pc = "copy" /\ aud'.pc = "store" /\ aud'.w = aud.w
      /\ \E got \in 0 .. Block : (got = 0 \/ voice.pos + got <= aud.w) /\ Len(aud'.buf) = got
  BY PullCopyDoes
<1>2. PICK got \in 0 .. Block : (got = 0 \/ voice.pos + got <= aud.w) /\ Len(aud'.buf) = got
  BY <1>1
<1>3. Taken = voice.pos /\ Taken' = voice.pos + got
  BY <1>1, <1>2, Ints DEF Taken
<1>4. st.r <= Taken' /\ Taken' <= st.w
  <2>1. st.r <= voice.pos /\ voice.pos <= st.w /\ aud.w <= st.w
    BY <1>3 DEF Cursors
  <2>2. st.r \in Nat /\ st.w \in Nat /\ voice.pos \in Nat /\ aud.w \in Nat /\ got \in Nat
    BY <1>2, Ints, Sizes
  <2> QED BY <1>2, <1>3, <2>1, <2>2
<1> QED BY <1>1, <1>4 DEF Cursors

LEMMA PullStoreCursors == ASSUME TypeOK, Cursors, PullStore PROVE Cursors' /\ st.r <= st'.r
<1>1. /\ UNCHANGED <<wpriv, thr, voice, ctl>> /\ aud.pc = "store" /\ aud'.pc = "ended"
      /\ aud'.w = aud.w /\ aud'.buf = aud.buf /\ st'.w = st.w
      /\ st'.r = IF aud.buf = <<>> THEN st.r ELSE voice.pos + Len(aud.buf)
  BY PullStoreDoes
<1>2. Taken' = Taken /\ Taken = voice.pos + Len(aud.buf)
  BY <1>1 DEF Taken
<1>3. st.r <= st'.r /\ st'.r <= Taken /\ st'.r \in Nat
  <2>1. st.r <= Taken /\ st.r \in Nat /\ Taken \in Nat
    BY <1>2, Ints, LenType DEF Cursors
  <2>2. st'.r = st.r \/ st'.r = Taken
    BY <1>1, <1>2
  <2> QED BY <2>1, <2>2
<1>4. st'.w <= st'.r + Ring /\ (thr.pc = "chunk" => thr.target <= st'.r + Ring)
      /\ (ctl.pc = "push" => ctl.space <= Ring - (wpriv - st'.r))
  <2>1. PICK r, s \in Nat : r = st.r /\ s = st'.r /\ r <= s
    BY <1>3, Ints
  <2>2. /\ st.w <= r + Ring /\ (thr.pc = "chunk" => thr.target <= r + Ring)
        /\ (ctl.pc = "push" => ctl.space <= Ring - (wpriv - r))
    BY <2>1 DEF Cursors
  <2>3. \A n \in Nat : n <= r + Ring => n <= s + Ring
    BY <2>1, Sizes
  <2>4. \A n, m \in Nat : n <= Ring - (m - r) => n <= Ring - (m - s)
    BY <2>1, Sizes
  <2> QED BY <1>1, <2>1, <2>2, <2>3, <2>4, Ints
<1> QED BY <1>1, <1>2, <1>3, <1>4 DEF Cursors

LEMMA EndBlockCursors == ASSUME TypeOK, Cursors, EndBlock PROVE Cursors' /\ Taken' = Taken
<1>1. /\ UNCHANGED <<st, wpriv, thr, ctl>> /\ aud.pc = "ended" /\ aud'.pc = "idle" /\ aud'.w = aud.w
      /\ voice'.pos = voice.pos + Len(aud.buf)
  BY EndBlockDoes
<1>2. Taken' = Taken
  BY <1>1, Ints DEF Taken
<1> QED BY <1>1, <1>2 DEF Cursors

LEMMA PushWriteCursors ==
    ASSUME TypeOK, Roles, Cursors, NEW n \in 1 .. Ring, PushWrite(n)
    PROVE  Cursors'
<1>1. /\ UNCHANGED <<push, thr, voice, aud>> /\ ctl.pc = "push" /\ ctl'.pc = "idle" /\ st'.r = st.r
      /\ \E put \in 0 .. Ring : put <= ctl.space /\ wpriv' = wpriv + put /\ st'.w = wpriv + put
  BY PushWriteDoes
<1>2. PICK put \in 0 .. Ring : put <= ctl.space /\ wpriv' = wpriv + put /\ st'.w = wpriv + put
  BY <1>1
<1>3. Taken' = Taken /\ thr.pc # "chunk"
  BY <1>1 DEF Taken, Roles, Filling
<1>4. wpriv' = st'.w /\ aud'.w <= st'.w /\ Taken' <= st'.w /\ st'.w <= st'.r + Ring
  BY <1>1, <1>2, <1>3, Ints, TakenType DEF Cursors
<1> QED BY <1>1, <1>3, <1>4 DEF Cursors

LEMMA PushSpaceCursors == ASSUME TypeOK, Roles, Cursors, PushSpace PROVE Cursors'
<1>1. UNCHANGED <<st, wpriv, thr, voice, aud>> /\ ctl'.space = Ring - (wpriv - st.r)
  BY PushSpaceDoes
<1> QED BY <1>1, Ints, Sizes DEF Cursors, Taken

LEMMA BeginRestartEndMark == ASSUME TypeOK, Roles, Beginning, EndMark, BeginRestart PROVE EndMark'
<1>1. /\ UNCHANGED <<push, st, ctl>> /\ ~push /\ st.state = "restart" /\ wpriv' = 0
      /\ thr'.pc = "r" /\ thr'.dec = 0 /\ thr'.done = FALSE
  BY TypeParts DEF BeginRestart, ThrType, audVars
<1>2. st.eof = None
  BY <1>1 DEF Beginning, Unbegun
<1> QED BY <1>1, <1>2 DEF EndMark

LEMMA FillChunkEndMark == ASSUME TypeOK, Roles, EndMark, FillChunk PROVE EndMark'
<1>1. /\ UNCHANGED <<push, aud, ctl>> /\ st'.eof = st.eof /\ thr.pc = "chunk"
      /\ thr'.loop = thr.loop /\ thr'.done = thr.done
  BY FillChunkDoes
<1>2. ~push /\ st.eof = None /\ ~thr.done
  BY <1>1 DEF Roles, EndMark, Filling
<1>3. /\ ~thr.loop => thr'.dec = wpriv'
      /\ thr'.pc = "end" => wpriv' = FileLen /\ ~thr.loop
  <2>1. CASE wpriv >= thr.target /\ UNCHANGED wpriv /\ thr'.pc = "wait" /\ thr'.dec = thr.dec
    BY <1>2, <2>1 DEF EndMark
  <2>2. CASE \E want, got \in Nat :
                 /\ got < want => got = FileLen - thr.dec
                 /\ wpriv' = wpriv + got
                 /\ \/ thr'.pc = "end" /\ got < want /\ ~thr.loop
                    \/ thr'.pc = "chunk"
                 /\ \/ thr'.dec = thr.dec + got
                    \/ thr'.dec = 0 /\ thr.loop
    <3>1. ~thr.loop => thr.dec = wpriv
      BY <1>2 DEF EndMark
    <3> QED BY <2>2, <3>1, Ints, Sizes
  <2> QED BY <2>1, <2>2, FillChunkDoes
<1> QED BY <1>1, <1>2, <1>3 DEF EndMark

LEMMA FillEndEndMark == ASSUME TypeOK, Roles, EndMark, FillEnd PROVE EndMark'
<1>1. /\ UNCHANGED <<push, wpriv, ctl>> /\ thr.pc = "end" /\ thr'.pc = "wait" /\ thr'.done = TRUE
      /\ thr'.loop = thr.loop /\ thr'.dec = thr.dec /\ st'.eof = wpriv
  BY FillEndDoes
<1>2. ~push /\ ctl.pc # "push" /\ wpriv = FileLen /\ ~thr.loop /\ wpriv # None
  BY <1>1, Ints DEF Roles, EndMark, Filling, None
<1> QED BY <1>1, <1>2 DEF EndMark, Restarting, Filling

LEMMA StartLoopLoopFlag ==
    ASSUME TypeOK, Roles, Once, Beginning, Pending, LoopFlag, NEW loop \in BOOLEAN, StartLoop(loop) PROVE LoopFlag'
<1>1. ctl.plays = 0 /\ ctl'.plays = 1
  BY FirstStart
<1>2. /\ UNCHANGED <<push, thr, cmd, voice>> /\ ~push
      /\ st'.loop = loop /\ ctl'.loop = loop /\ st'.state = st.state
  BY StartLoopDoes
<1>3. ~PlayQueued /\ ~voice.playing /\ ~Restarting /\ ~Filling /\ ~thr.done /\ st.state # "active"
  BY <1>1, <1>2 DEF Pending, PlayPending, Beginning, Unbegun
<1>4. \A k \in 1 .. Len(cmd) : cmd[k].t # "play"
  BY <1>3 DEF PlayQueued
<1> QED BY <1>1, <1>2, <1>3, <1>4 DEF LoopFlag, Restarting, Filling

LEMMA BeginBlockLoopFlag == ASSUME TypeOK, Pending, LoopFlag, BeginBlock PROVE LoopFlag'
<1>1. /\ UNCHANGED <<push, st, thr>> /\ Len(cmd') = 0 /\ ctl'.loop = ctl.loop /\ ctl'.plays = ctl.plays
      /\ \/ voice' = voice /\ voice.playing
         \/ voice'.playing = FALSE /\ voice'.loop = voice.loop
         \/ /\ Len(cmd) > 0 /\ \A k \in 1 .. Len(cmd) : cmd[k].t = "play"
            /\ voice'.loop = cmd[Len(cmd)].loop
  BY BeginBlockDoes
<1>2. /\ push => ~voice'.loop
      /\ ~push /\ voice'.playing => voice'.loop = ctl.loop /\ ctl.plays > 0
  <2>1. CASE voice' = voice /\ voice.playing
    BY <2>1 DEF LoopFlag
  <2>2. CASE voice'.playing = FALSE /\ voice'.loop = voice.loop
    BY <2>2 DEF LoopFlag
  <2>3. CASE /\ Len(cmd) > 0 /\ \A k \in 1 .. Len(cmd) : cmd[k].t = "play"
             /\ voice'.loop = cmd[Len(cmd)].loop
    <3>1. Len(cmd) \in 1 .. Len(cmd) /\ cmd[Len(cmd)].t = "play"
      BY <2>3, LenType
    <3>2. ~push => ctl.plays > 0
      BY <3>1 DEF Pending, PlayQueued
    <3> QED BY <2>3, <3>1, <3>2 DEF LoopFlag
  <2> QED BY <1>1, <2>1, <2>2, <2>3
<1>3. /\ push' => \A k \in 1 .. Len(cmd') : ~cmd'[k].loop
      /\ ~push' => \A k \in 1 .. Len(cmd') : cmd'[k].t = "play" => cmd'[k].loop = ctl'.loop
  BY <1>1
<1> QED BY <1>1, <1>2, <1>3 DEF LoopFlag, Restarting, Filling

LEMMA UnloadLoopFlag == ASSUME TypeOK, LoopFlag, Unload PROVE LoopFlag'
<1>1. /\ UNCHANGED <<push, st, thr, voice>> /\ ctl'.loop = ctl.loop /\ ctl'.plays = ctl.plays
      /\ \A k \in 1 .. Len(cmd') :
             \/ k \in 1 .. Len(cmd) /\ cmd'[k] = cmd[k]
             \/ cmd'[k].t = "retire" /\ cmd'[k].loop = FALSE
  BY UnloadDoes
<1>2. /\ push' => \A k \in 1 .. Len(cmd') : ~cmd'[k].loop
      /\ ~push' => \A k \in 1 .. Len(cmd') : cmd'[k].t = "play" => cmd'[k].loop = ctl'.loop
  BY <1>1 DEF LoopFlag
<1> QED BY <1>1, <1>2 DEF LoopFlag, Restarting, Filling

-----------------------------------------------------------------------------
(* The contents of the ring. *)

\* A write of any length keeps the ring a ring of samples.
LEMMA WriteType ==
    ASSUME NEW from \in Nat, NEW n \in Nat, ring \in [0 .. Ring - 1 -> Samples]
    PROVE  Write(from, n) \in [0 .. Ring - 1 -> Samples]
<1> DEFINE S(k) == {q \in from .. from + n - 1 : q % Ring = k}
           W == Write(from, n)
<1>1. W = [k \in 0 .. Ring - 1 |-> IF S(k) = {} THEN ring[k] ELSE Frame(Max(S(k)))]
  BY DEF Write
<1>2. ASSUME NEW k \in 0 .. Ring - 1 PROVE W[k] \in Samples
  <2>1. CASE S(k) = {}
    <3> HIDE DEF S, W
    <3> QED BY <1>1, <2>1
  <2>2. CASE S(k) # {}
    <3>1. Max(S(k)) \in S(k)
      <4>1. S(k) \subseteq from .. from + n - 1 /\ from \in Int /\ from + n - 1 \in Int
        OBVIOUS
      <4> HIDE DEF S
      <4> QED BY <2>2, <4>1, MaxOfSome
    <3>2. Max(S(k)) \in Nat
      BY <3>1
    <3> HIDE DEF S, W
    <3>3. Frame(Max(S(k))) \in 0 .. FileLen - 1
      <4>1. FileLen \in Nat \ {0}
        BY Sizes
      <4>2. Max(S(k)) % FileLen \in 0 .. FileLen - 1
        BY <3>2, <4>1, Slot
      <4> QED BY <4>2 DEF Frame
    <3> QED BY <1>1, <2>2, <3>3 DEF Samples
  <2> QED BY <2>1, <2>2
<1>3. W = [k \in 0 .. Ring - 1 |-> W[k]]
  BY <1>1
<1> HIDE DEF S, W
<1>4. W \in [0 .. Ring - 1 -> Samples]
  BY <1>2, <1>3
<1> QED BY <1>4 DEF W

\* A step that writes nothing keeps what is held: the voice only moves on, or nothing is supplied yet.
LEMMA HeldKept ==
    ASSUME TypeOK, Taken' \in Nat, Held, ring' = ring,
           \/ Taken' >= Taken /\ st'.w = st.w
           \/ st'.w = 0
    PROVE  Held'
<1> SUFFICES ASSUME NEW p \in Nat, Taken' <= p, p < st'.w PROVE ring'[p % Ring] = Frame(p)
  BY DEF Held
<1>1. Taken <= p /\ p < st.w
  BY TakenType
<1> QED BY <1>1 DEF Held

\* A write within the room keeps what is held, and adds what it wrote.
LEMMA HeldWritten ==
    ASSUME TypeOK, Cursors, Held, Taken' = Taken, NEW n \in Nat,
           ring' = Write(wpriv, n), st'.w = wpriv + n, st'.w <= st.r + Ring
    PROVE  Held'
<1>1. /\ wpriv \in Nat /\ n \in 0 .. Ring /\ Ring \in Nat \ {0} /\ Taken \in Nat
      /\ st.w = wpriv /\ st'.w <= Taken + Ring
  BY Ints, Sizes, TakenType DEF Cursors
<1> SUFFICES ASSUME NEW p \in Nat, Taken' <= p, p < st'.w PROVE ring'[p % Ring] = Frame(p)
  BY DEF Held
<1>2. ring \in [0 .. Ring - 1 -> Samples] /\ p % Ring \in 0 .. Ring - 1
  BY <1>1, TypeParts, Slot DEF RestOK
<1>3. CASE p >= wpriv
  <2>1. p \in wpriv .. wpriv + n - 1
    BY <1>1, <1>3
  <2> QED BY <1>1, <1>2, <2>1, Written
<1>4. CASE p < wpriv
  <2>1. ASSUME NEW q \in wpriv .. wpriv + n - 1 PROVE q % Ring # p % Ring
    <3>1. q \in Nat /\ p < q /\ p <= q /\ q < p + Ring
      BY <1>1, <1>4
    <3>2. ASSUME p % Ring = q % Ring PROVE p = q
      BY <1>1, <3>1, <3>2, OneOfARing
    <3> QED BY <3>1, <3>2
  <2>2. ring'[p % Ring] = ring[p % Ring]
    BY <1>1, <1>2, <2>1, Written
  <2> QED BY <1>1, <1>4, <2>2 DEF Held
<1> QED BY <1>1, <1>3, <1>4

\* Every step keeps the samples between the voice and the producer.
LEMMA HeldStep ==
    ASSUME TypeOK, Roles, Queue, Once, Beginning, Pending, Cursors, Cursors', TypeOK', Held, Next
    PROVE  Held'
<1>0. Taken \in Nat /\ Taken' \in Nat
  <2>1. ASSUME TypeOK' PROVE (voice.pos \in Nat /\ Len(aud.buf) \in Nat)'
    BY <2>1 DEF TypeOK
  <2> QED BY <2>1, TakenType DEF Taken
<1>1. CASE Thread
  <2>1. CASE Reset
    <3>1. UNCHANGED <<ring, voice, aud>> /\ (st'.w = st.w \/ st'.w = 0)
      BY <2>1, ResetDoes
    <3> QED BY <1>0, <3>1, HeldKept DEF Taken
  <2>2. CASE FillChunk
    <3>1. UNCHANGED <<voice, aud>> /\ st'.r = st.r
      BY <2>2, FillChunkDoes
    <3>2. \/ UNCHANGED <<st, ring>>
          \/ \E got \in Nat : ring' = Write(wpriv, got) /\ st'.w = wpriv + got
      <4>1. CASE wpriv >= thr.target /\ UNCHANGED <<st, wpriv, ring>>
        BY <4>1
      <4>2. CASE \E want, got \in Nat : ring' = Write(wpriv, got) /\ st'.w = wpriv + got
        BY <4>2
      <4> QED BY <2>2, <4>1, <4>2, FillChunkDoes
    <3>3. Taken' = Taken /\ st'.w <= st.r + Ring
      BY <3>1 DEF Taken, Cursors
    <3> QED BY <1>0, <3>2, <3>3, HeldKept, HeldWritten
  <2>3. CASE Wake
    BY <1>0, <2>3, WakeDoes, HeldKept DEF Taken
  <2>4. CASE FillEnd
    BY <1>0, <2>4, FillEndDoes, HeldKept DEF Taken
  <2>5. CASE Reap
    <3>1. st'.w = st.w /\ UNCHANGED <<ring, voice, aud>>
      BY <2>5, TypeParts DEF Reap, Store, StType, audVars
    <3> QED BY <1>0, <3>1, HeldKept DEF Taken
  <2>6. CASE Top \/ BeginRestart \/ LookOn \/ FillBegin \/ Sleep
    <3>1. UNCHANGED <<st, ring, voice, aud>>
      BY <2>6 DEF Top, BeginRestart, LookOn, FillBegin, Sleep, audVars
    <3> QED BY <1>0, <3>1, HeldKept DEF Taken
  <2> QED BY <1>1, <2>1, <2>2, <2>3, <2>4, <2>5, <2>6 DEF Thread
<1>2. CASE Audio
  <2>1. CASE BeginBlock
    <3>1. UNCHANGED <<st, ring>>
      BY <2>1, BeginBlockDoes
    <3>2. Taken' = Taken
      BY <2>1, BeginBlockCursors
    <3> QED BY <1>0, <3>1, <3>2, HeldKept
  <2>2. CASE PullLoad
    <3>1. UNCHANGED <<st, ring, voice>> /\ aud.pc = "load" /\ aud'.pc = "copy"
      BY <2>2, TypeParts DEF PullLoad, AudType
    <3>2. Taken' = Taken
      BY <3>1 DEF Taken
    <3> QED BY <1>0, <3>1, <3>2, HeldKept
  <2>3. CASE PullCopy
    <3>1. UNCHANGED <<st, ring, voice>> /\ aud.pc = "copy" /\ Len(aud'.buf) >= 0 /\ aud'.pc = "store"
      BY <2>3, PullCopyDoes
    <3>2. Taken' >= Taken
      BY <3>1, Ints, PullCopyCursors, <2>3, PullCopyDoes DEF Taken
    <3> QED BY <1>0, <3>1, <3>2, HeldKept
  <2>4. CASE PullStore
    <3>1. UNCHANGED <<ring, voice>> /\ aud.pc = "store" /\ aud'.pc = "ended" /\ aud'.buf = aud.buf /\ st'.w = st.w
      BY <2>4, PullStoreDoes
    <3>2. Taken' = Taken
      BY <3>1 DEF Taken
    <3> QED BY <1>0, <3>1, <3>2, HeldKept
  <2>5. CASE EndBlock
    BY <1>0, <2>5, EndBlockDoes, EndBlockCursors, HeldKept
  <2> QED BY <1>2, <2>1, <2>2, <2>3, <2>4, <2>5 DEF Audio
<1>3. CASE ControlStep
  <2>1. ASSUME NEW n \in 1 .. Ring, PushWrite(n) PROVE Held'
    <3>1. PICK put \in 0 .. Ring : ring' = Write(wpriv, put) /\ st'.w = wpriv + put
      BY <2>1, PushWriteDoes
    <3>2. UNCHANGED <<voice, aud>> /\ st'.r = st.r
      BY <2>1, PushWriteDoes
    <3>3. Taken' = Taken /\ st'.w <= st.r + Ring /\ put \in Nat
      BY <3>2 DEF Taken, Cursors
    <3> QED BY <3>1, <3>3, HeldWritten
  <2>2. CASE StartBind
    BY <1>0, <2>2, StartBindDoes, HeldKept DEF Taken
  <2>3. CASE StartState \/ StartSignal \/ Close \/ CloseSignal \/ DestroySignal \/ DestroyJoin
    <3>1. st'.w = st.w /\ UNCHANGED <<ring, voice, aud>>
      BY <2>3, TypeParts DEF StartState, StartSignal, Close, CloseSignal, DestroySignal, DestroyJoin,
           Store, StType, audVars
    <3> QED BY <1>0, <3>1, HeldKept DEF Taken
  <2> QED BY <1>3, <2>1, <2>2, <2>3 DEF ControlStep
<1>4. CASE Call
  <2>1. ASSUME NEW loop \in BOOLEAN, StartLoop(loop) PROVE Held'
    BY <1>0, <2>1, StartLoopDoes, HeldKept DEF Taken
  <2>2. CASE PushSpace
    BY <1>0, <2>2, PushSpaceDoes, HeldKept DEF Taken
  <2>3. CASE PushEnd
    <3>1. st'.w = st.w /\ UNCHANGED <<ring, voice, aud>>
      BY <2>3, TypeParts DEF PushEnd, Store, StType, audVars
    <3> QED BY <1>0, <3>1, HeldKept DEF Taken
  <2>4. CASE Unload
    BY <1>0, <2>4, UnloadDoes, HeldKept DEF Taken
  <2>5. CASE DestroyStop
    <3>1. UNCHANGED <<st, ring>> /\ voice'.pos = voice.pos /\ aud.pc = "idle" /\ aud'.pc = "off"
      BY <2>5, TypeParts DEF DestroyStop, VoiceType, AudType
    <3>2. Taken' = Taken
      BY <3>1 DEF Taken
    <3> QED BY <1>0, <3>1, <3>2, HeldKept
  <2> QED BY <1>4, <2>1, <2>2, <2>3, <2>4, <2>5 DEF Call
<1> QED BY <1>1, <1>2, <1>3, <1>4 DEF Next

-----------------------------------------------------------------------------
(* Types. *)

LEMMA FillChunkType == ASSUME TypeOK, FillChunk PROVE TypeOK'
<1>0. TypeOK /\ wpriv \in Nat /\ ring \in [0 .. Ring - 1 -> Samples] /\ thr \in ThrType /\ st \in StType
  BY TypeParts, Ints DEF RestOK
<1>1. \/ UNCHANGED <<st, wpriv, ring>>
      \/ /\ wpriv' \in 0 .. PosMax + Ring /\ st'.w = wpriv'
         /\ ring' \in [0 .. Ring - 1 -> Samples]
  <2>1. CASE UNCHANGED <<st, wpriv, ring>>
    BY <2>1
  <2>2. CASE \E want, got \in Nat :
                 /\ wpriv + want <= thr.target /\ got <= want
                 /\ ring' = Write(wpriv, got) /\ wpriv' = wpriv + got /\ st'.w = wpriv + got
    <3>1. PICK want, got \in Nat :
                 /\ wpriv + want <= thr.target /\ got <= want
                 /\ ring' = Write(wpriv, got) /\ wpriv' = wpriv + got /\ st'.w = wpriv + got
      BY <2>2
    <3>2. ring' \in [0 .. Ring - 1 -> Samples]
      BY <1>0, <3>1, WriteType
    <3>3. wpriv' \in 0 .. PosMax + Ring
      BY <1>0, <3>1, Sizes DEF ThrType
    <3> QED BY <3>1, <3>2, <3>3
  <2> QED BY <2>1, <2>2, FillChunkDoes
<1>2. thr'.dec \in 0 .. FileLen /\ thr'.pc \in {"wait", "end", "chunk"}
  <2>1. CASE thr'.pc = "wait" /\ thr'.dec = thr.dec
    BY <1>0, <2>1 DEF ThrType
  <2>2. CASE \E want, got \in Nat :
                 /\ got <= FileLen - thr.dec
                 /\ (thr'.pc = "end" /\ got < want /\ ~thr.loop) \/ thr'.pc = "chunk"
                 /\ thr'.dec = thr.dec + got \/ (thr'.dec = 0 /\ thr.loop)
    <3>1. thr.dec \in 0 .. FileLen
      BY <1>0 DEF ThrType
    <3> QED BY <2>2, <3>1, Sizes
  <2> QED BY <2>1, <2>2, FillChunkDoes
<1>3. thr' \in ThrType
  <2>1. CASE thr' = [thr EXCEPT !.pc = "wait"]
    BY <1>0, <2>1 DEF ThrType
  <2>2. CASE ~(wpriv >= thr.target)
    <3> DEFINE want == Smaller(thr.target - wpriv, Chunk)
               got == Smaller(want, FileLen - thr.dec)
               pc == IF got < want /\ ~thr.loop THEN "end" ELSE "chunk"
               dec == IF got < want /\ thr.loop THEN 0 ELSE thr.dec + got
    <3>1. thr' = [thr EXCEPT !.pc = pc, !.dec = dec]
      BY <1>0, <2>2 DEF FillChunk, ThrType
    <3> HIDE DEF want, got, pc, dec
    <3>2. thr'.pc = pc /\ thr'.dec = dec
      BY <1>0, <3>1 DEF ThrType
    <3> QED BY <1>0, <1>2, <3>1, <3>2 DEF ThrType
  <2> QED BY <2>1, <2>2 DEF FillChunk
<1>4. st' \in StType
  <2>1. CASE UNCHANGED st
    BY <1>0, <2>1
  <2>2. CASE \E x : Store("w", x)
    <3>1. PICK x : Store("w", x)
      BY <2>2
    <3>2. st'.w = x
      BY <1>0, <3>1 DEF Store, StType
    <3>3. x \in 0 .. PosMax + Ring
      BY <1>0, <1>1, <3>2 DEF StType
    <3> QED BY <1>0, <3>1, <3>3 DEF Store, StType
  <2> QED BY <2>1, <2>2 DEF FillChunk
<1>5. /\ wpriv' \in 0 .. PosMax + Ring /\ ring' \in [0 .. Ring - 1 -> Samples]
      /\ UNCHANGED <<push, wake, stop, cmd, voice, aud, ctl>>
  BY <1>0, <1>1, FillChunkDoes, TypeParts DEF RestOK
<1> QED BY <1>3, <1>4, <1>5, TypeParts, TypePartsPrime DEF RestOK

LEMMA PushWriteType ==
    ASSUME TypeOK, NEW n \in 1 .. Ring, PushWrite(n) PROVE TypeOK'
<1>1. PICK put \in 0 .. Ring : wpriv + put <= PosMax /\ ring' = Write(wpriv, put) /\ wpriv' = wpriv + put
  BY PushWriteDoes
<1>2. /\ wpriv \in Nat /\ put \in Nat /\ wpriv' \in 0 .. PosMax + Ring
      /\ ring' \in [0 .. Ring - 1 -> Samples]
  <2>1. wpriv \in Nat /\ ring \in [0 .. Ring - 1 -> Samples]
    BY TypeParts, Ints DEF RestOK
  <2> QED BY <1>1, <2>1, WriteType, Sizes
<1>3. st' = [st EXCEPT !.w = wpriv'] /\ ctl' = [ctl EXCEPT !.pc = "idle", !.space = 0]
  BY DEF PushWrite, Store
<1>4. st' \in StType
  BY <1>2, <1>3, TypeParts DEF StType
<1>5. ctl' \in CtlType
  <2>1. 0 \in 0 .. Ring /\ ctl \in CtlType
    BY Sizes, TypeParts
  <2> QED BY <1>3, <2>1 DEF CtlType
<1> QED BY <1>2, <1>4, <1>5, PushWriteDoes, TypeParts, TypePartsPrime DEF RestOK

LEMMA PushSpaceType == ASSUME TypeOK, Roles, Cursors, PushSpace PROVE TypeOK'
<1>1. Ring - (wpriv - st.r) \in 0 .. Ring
  BY TypeParts, Ints, Sizes, TakenType DEF Cursors
<1>2. ctl' = [ctl EXCEPT !.pc = "push", !.space = Ring - (wpriv - st.r)]
  BY DEF PushSpace
<1>3. ctl' \in CtlType
  BY <1>1, <1>2, TypeParts DEF CtlType
<1> QED BY <1>3, PushSpaceDoes, TypeParts, TypePartsPrime DEF RestOK

LEMMA BeginBlockType == ASSUME TypeOK, BeginBlock PROVE TypeOK'
<1>1. voice \in VoiceType /\ aud \in AudType /\ ctl \in CtlType /\ cmd \in Seq(Commands)
  BY TypeParts DEF RestOK
<1>2. voice' \in VoiceType
  <2>1. CASE voice' = voice
    BY <1>1, <2>1
  <2>2. CASE voice' = [voice EXCEPT !.bound = FALSE, !.playing = FALSE]
    BY <1>1, <2>2 DEF VoiceType
  <2>3. CASE cmd # <<>> /\ voice' = [bound |-> TRUE, playing |-> TRUE, pos |-> 0, loop |-> cmd[Len(cmd)].loop]
    <3>1. Len(cmd) \in 1 .. Len(cmd)
      BY <1>1, <2>3
    <3>2. cmd[Len(cmd)].loop \in BOOLEAN
      <4>1. cmd[Len(cmd)] \in Commands
        BY <1>1, <3>1
      <4> QED BY <4>1 DEF Commands
    <3> QED BY <2>3, <3>2, Sizes DEF VoiceType
  <2> QED BY <2>1, <2>2, <2>3 DEF BeginBlock
<1>3. aud' \in AudType
  <2>1. \E x \in {"load", "idle"} : aud' = [aud EXCEPT !.pc = x]
    BY DEF BeginBlock
  <2> QED BY <1>1, <2>1 DEF AudType
<1>4. ctl' \in CtlType
  <2>1. ctl' = ctl \/ ctl' = [ctl EXCEPT !.retire = "acked"]
    BY DEF BeginBlock
  <2> QED BY <1>1, <2>1 DEF CtlType
<1>5. cmd' \in Seq(Commands) /\ Len(cmd') <= Plays + 2
  BY BeginBlockDoes, Sizes
<1>6. aud'.buf = aud.buf /\ UNCHANGED <<push, st, wpriv, ring, wake, stop, thr>>
  BY BeginBlockDoes
<1> QED BY <1>2, <1>3, <1>4, <1>5, <1>6, TypeParts, TypePartsPrime DEF RestOK

LEMMA PullCopyType == ASSUME TypeOK, PullCopy PROVE TypeOK'
<1>1. aud \in AudType /\ ring \in [0 .. Ring - 1 -> Samples] /\ voice.pos \in Nat
  BY TypeParts, Ints DEF RestOK
<1>2. \E x : aud' = [aud EXCEPT !.pc = "store", !.buf = x]
  BY DEF PullCopy
<1>3. PICK got \in 0 .. Block :
         aud'.buf = [k \in 1 .. got |-> ring[(voice.pos + k - 1) % Ring]] /\ Len(aud'.buf) = got
  BY PullCopyDoes
<1>4. aud'.buf \in Seq(Samples)
  <2>1. ASSUME NEW k \in 1 .. got PROVE ring[(voice.pos + k - 1) % Ring] \in Samples
    <3>1. voice.pos + k - 1 \in Nat /\ Ring \in Nat \ {0}
      BY <1>1, Sizes
    <3>2. (voice.pos + k - 1) % Ring \in 0 .. Ring - 1
      BY <3>1, Slot
    <3> QED BY <1>1, <3>2
  <2>2. got \in Nat
    BY Sizes
  <2> QED BY <1>3, <2>1, <2>2
<1>5. aud' \in AudType
  BY <1>1, <1>2, <1>4 DEF AudType
<1>6. Len(aud'.buf) <= Block
  BY <1>3, Sizes
<1> QED BY <1>5, <1>6, PullCopyDoes, TypeParts, TypePartsPrime DEF RestOK

\* A block that is under way has room for its samples.
LEMMA TakenBound ==
    ASSUME TypeOK, Roles, aud.pc \notin {"idle", "off"}
    PROVE  voice.pos + Len(aud.buf) \in 0 .. PosMax
<1>1. voice.pos \in Nat /\ Len(aud.buf) \in Nat /\ Len(aud.buf) <= Block
  BY Ints, LenType, TypeParts DEF RestOK
<1>2. voice.pos + Block <= PosMax
  BY DEF Roles
<1> QED BY <1>1, <1>2, Sizes

LEMMA PullStoreType == ASSUME TypeOK, Roles, PullStore PROVE TypeOK'
<1>1. aud \in AudType /\ st \in StType /\ voice.pos + Len(aud.buf) \in 0 .. PosMax
  <2>1. aud.pc = "store"
    BY PullStoreDoes
  <2> QED BY <2>1, TakenBound, TypeParts
<1>2. aud' = [aud EXCEPT !.pc = "ended"] /\ (st' = st \/ st' = [st EXCEPT !.r = voice.pos + Len(aud.buf)])
  BY DEF PullStore, Store
<1>3. aud' \in AudType /\ st' \in StType /\ aud'.buf = aud.buf
  BY <1>1, <1>2 DEF AudType, StType
<1> QED BY <1>3, PullStoreDoes, TypeParts, TypePartsPrime DEF RestOK

LEMMA EndBlockType == ASSUME TypeOK, Roles, EndBlock PROVE TypeOK'
<1>1. aud \in AudType /\ voice \in VoiceType /\ voice.pos + Len(aud.buf) \in 0 .. PosMax
  <2>1. aud.pc = "ended"
    BY EndBlockDoes
  <2> QED BY <2>1, TakenBound, TypeParts
<1>2. /\ aud' = [aud EXCEPT !.pc = "idle"]
      /\ \E x \in BOOLEAN : voice' = [voice EXCEPT !.pos = voice.pos + Len(aud.buf), !.playing = x]
  BY DEF EndBlock, Ended
<1>3. aud' \in AudType /\ voice' \in VoiceType /\ aud'.buf = aud.buf
  BY <1>1, <1>2 DEF AudType, VoiceType
<1> QED BY <1>3, EndBlockDoes, TypeParts, TypePartsPrime DEF RestOK

\* The queue is never longer than the commands a run can send.
LEMMA QueueLength == ASSUME TypeOK, Queue PROVE Len(cmd) <= ctl.plays + 2
<1>1. PICK n, m, a, b, c : n = Len(cmd) /\ m = ctl.plays /\ a = (IF Starting THEN 1 ELSE 0)
                           /\ b = (IF push THEN 1 ELSE 0) /\ c = (IF ctl.retire = "no" THEN 0 ELSE 1)
  OBVIOUS
<1>2. n + a <= m + b + c
  BY <1>1 DEF Queue
<1>3. n \in Nat /\ m \in Nat /\ a \in 0 .. 1 /\ b \in 0 .. 1 /\ c \in 0 .. 1
  BY <1>1, LenType, Ints
<1>4. n <= m + 2
  BY <1>2, <1>3
<1> QED BY <1>1, <1>4

LEMMA StartBindType == ASSUME TypeOK, Queue, StartBind PROVE TypeOK'
<1>1. cmd' \in Seq(Commands)
  BY StartBindDoes, TypeParts DEF RestOK
<1>2. Len(cmd') <= Plays + 2
  <2>1. ctl.pc = "bind" /\ Len(cmd') <= Len(cmd) + 1
    BY StartBindDoes, LenType
  <2>2. ctl.retire = "no" /\ Starting
    BY <2>1 DEF Queue, Starting
  <2>3. Len(cmd) + 1 <= ctl.plays + 1
    BY <2>2, LenType, Ints DEF Queue
  <2>4. ctl.plays <= Plays
    BY TypeParts, Sizes DEF CtlType
  <2> QED BY <2>1, <2>3, <2>4, <1>1, LenType, Ints, Sizes
<1>3. ctl' \in CtlType
  BY TypeParts DEF StartBind, Ctl, CtlType
<1> QED BY <1>1, <1>2, <1>3, StartBindDoes, TypeParts, TypePartsPrime DEF RestOK

LEMMA UnloadType == ASSUME TypeOK, Queue, Unload PROVE TypeOK'
<1>1. cmd' \in Seq(Commands) /\ Len(cmd') = Len(cmd) + 1 /\ ctl.retire = "no"
  BY UnloadDoes
<1>2. Len(cmd') <= Plays + 2
  <2>1. Len(cmd) <= ctl.plays + 1
    BY <1>1, LenType, Ints DEF Queue
  <2>2. ctl.plays <= Plays
    BY TypeParts, Sizes DEF CtlType
  <2> QED BY <1>1, <2>1, <2>2, LenType, Ints, Sizes
<1>3. ctl' \in CtlType
  BY TypeParts DEF Unload, CtlType
<1> QED BY <1>1, <1>2, <1>3, UnloadDoes, TypeParts, TypePartsPrime DEF RestOK

LEMMA BeginRestartType == ASSUME TypeOK, BeginRestart PROVE TypeOK'
<1>1. st.loop \in BOOLEAN /\ thr \in ThrType /\ 0 \in 0 .. FileLen /\ 0 \in 0 .. PosMax + Ring
  BY TypeParts, Sizes DEF StType
<1>2. thr' = [thr EXCEPT !.pc = "r", !.loop = st.loop, !.done = FALSE, !.dec = 0]
  BY DEF BeginRestart
<1>3. thr' \in ThrType
  BY <1>1, <1>2 DEF ThrType
<1> QED BY <1>1, <1>3, TypeParts, TypePartsPrime DEF BeginRestart, audVars, RestOK

LEMMA ResetType == ASSUME TypeOK, Reset PROVE TypeOK'
<1>1. st \in StType /\ thr \in ThrType /\ 0 \in 0 .. PosMax /\ 0 \in 0 .. PosMax + Ring
  BY TypeParts, Sizes
<1>2. \E x \in {"w", "eof", "go", "fill"} : thr' = [thr EXCEPT !.pc = x]
  BY DEF Reset, Thr
<1>3. thr' \in ThrType
  BY <1>1, <1>2 DEF ThrType
<1>4. \/ st' = [st EXCEPT !.r = 0]
      \/ st' = [st EXCEPT !.w = 0]
      \/ st' = [st EXCEPT !.eof = None]
      \/ st' = [st EXCEPT !.state = "active"]
  BY DEF Reset, Store
<1>5. st' \in StType
  BY <1>1, <1>4 DEF StType, States
<1> QED BY <1>3, <1>5, ResetDoes, TypeParts, TypePartsPrime DEF RestOK

LEMMA FillBeginType == ASSUME TypeOK, FillBegin PROVE TypeOK'
<1>1. st.r + Ring \in 0 .. PosMax + Ring /\ thr \in ThrType
  <2>1. st.r \in 0 .. PosMax /\ thr \in ThrType
    BY TypeParts DEF StType
  <2> QED BY <2>1, Sizes
<1>2. thr' = [thr EXCEPT !.pc = "chunk", !.target = st.r + Ring]
  BY DEF FillBegin, Target
<1>3. thr' \in ThrType
  BY <1>1, <1>2 DEF ThrType
<1> QED BY <1>3, FillBeginDoes, TypeParts, TypePartsPrime DEF RestOK

LEMMA StartLoopType == ASSUME TypeOK, NEW loop \in BOOLEAN, StartLoop(loop) PROVE TypeOK'
<1>1. ctl \in CtlType /\ st \in StType /\ ctl.plays + 1 \in 0 .. Plays
  <2>1. ctl \in CtlType /\ st \in StType /\ ctl.plays \in 0 .. Plays /\ ctl.plays < Plays
    BY TypeParts, StartLoopDoes DEF CtlType
  <2> QED BY <2>1, Sizes
<1>2. /\ ctl' = [ctl EXCEPT !.pc = "restart", !.loop = loop, !.plays = ctl.plays + 1]
      /\ st' = [st EXCEPT !.loop = loop]
  BY <1>1 DEF StartLoop, Store, CtlType
<1>3. ctl' \in CtlType /\ st' \in StType
  BY <1>1, <1>2 DEF CtlType, StType
<1> QED BY <1>3, StartLoopDoes, TypeParts, TypePartsPrime DEF RestOK

-----------------------------------------------------------------------------
(* Every action, conjunct by conjunct. *)

\* Only a file stream is started and filled, only a push stream is pushed.
LEMMA RolesStep == ASSUME TypeOK, Roles, Next PROVE Roles'
<1> USE StreamAssumption, LenType DEF Roles, Starting, Restarting, Filling
<1>1. CASE Top
  BY <1>1 DEF TypeOK, Commands, States, audVars, Top, Thr
<1>2. CASE Reap
  BY <1>2 DEF TypeOK, Commands, States, audVars, Reap, Thr, Store
<1>3. CASE BeginRestart
  BY <1>3 DEF TypeOK, Commands, States, audVars, BeginRestart
<1>4. CASE Reset
  BY <1>4, ResetDoes
<1>5. CASE LookOn
  BY <1>5 DEF TypeOK, Commands, States, audVars, LookOn, Thr, Fillable
<1>6. CASE FillBegin
  BY <1>6, FillBeginDoes
<1>7. CASE FillChunk
  BY <1>7, FillChunkDoes
<1>8. CASE FillEnd
  BY <1>8, FillEndDoes
<1>9. CASE Sleep
  BY <1>9 DEF TypeOK, Commands, States, audVars, Sleep, Thr, Timed, Fillable
<1>10. CASE Wake
  BY <1>10, WakeDoes
<1>11. CASE BeginBlock
  BY <1>11, BeginBlockRoles
<1>12. CASE PullLoad
  BY <1>12 DEF TypeOK, Commands, States, audVars, PullLoad
<1>13. CASE PullCopy
  BY <1>13, PullCopyDoes
<1>14. CASE PullStore
  BY <1>14, PullStoreDoes
<1>15. CASE EndBlock
  BY <1>15, EndBlockDoes
<1>16. CASE StartState
  BY <1>16 DEF TypeOK, Commands, States, audVars, StartState, Ctl, Store
<1>17. CASE StartSignal
  BY <1>17 DEF TypeOK, Commands, States, audVars, StartSignal, Ctl
<1>18. CASE StartBind
  BY <1>18, StartBindDoes
<1>19. ASSUME NEW n \in 1 .. Ring, PushWrite(n) PROVE Roles'
  BY <1>19, PushWriteDoes
<1>20. CASE Close
  BY <1>20 DEF TypeOK, Commands, States, audVars, Close, Store
<1>21. CASE CloseSignal
  BY <1>21 DEF TypeOK, Commands, States, audVars, CloseSignal, Ctl
<1>22. CASE DestroySignal
  BY <1>22 DEF TypeOK, Commands, States, audVars, DestroySignal, Ctl
<1>23. CASE DestroyJoin
  BY <1>23 DEF TypeOK, Commands, States, audVars, DestroyJoin, Ctl, Store
<1>24. ASSUME NEW loop \in BOOLEAN, StartLoop(loop) PROVE Roles'
  BY <1>24, StartLoopRoles
<1>25. CASE PushSpace
  BY <1>25, PushSpaceDoes
<1>26. CASE PushEnd
  BY <1>26 DEF TypeOK, Commands, States, audVars, PushEnd, Free, Store
<1>27. CASE Unload
  BY <1>27, UnloadDoes
<1>28. CASE DestroyStop
  BY <1>28 DEF TypeOK, Commands, States, audVars, DestroyStop
<1> QED BY <1>1, <1>2, <1>3, <1>4, <1>5, <1>6, <1>7, <1>8, <1>9, <1>10, <1>11, <1>12, <1>13, <1>14,
     <1>15, <1>16, <1>17, <1>18, <1>19, <1>20, <1>21, <1>22, <1>23, <1>24, <1>25, <1>26, <1>27, <1>28
     DEF Next, Thread, Audio, ControlStep, Call

\* Never more commands than were sent, and nothing begins once a retire is on its way.
LEMMA QueueStep == ASSUME TypeOK, Roles, Queue, Next PROVE Queue'
<1> USE StreamAssumption, LenType DEF Queue, Roles, Starting
<1>1. CASE Top
  BY <1>1 DEF TypeOK, Commands, States, audVars, Top, Thr
<1>2. CASE Reap
  BY <1>2 DEF TypeOK, Commands, States, audVars, Reap, Thr, Store
<1>3. CASE BeginRestart
  BY <1>3 DEF TypeOK, Commands, States, audVars, BeginRestart
<1>4. CASE Reset
  BY <1>4, ResetDoes
<1>5. CASE LookOn
  BY <1>5 DEF TypeOK, Commands, States, audVars, LookOn, Thr, Fillable
<1>6. CASE FillBegin
  BY <1>6, FillBeginDoes
<1>7. CASE FillChunk
  BY <1>7, FillChunkDoes
<1>8. CASE FillEnd
  BY <1>8, FillEndDoes
<1>9. CASE Sleep
  BY <1>9 DEF TypeOK, Commands, States, audVars, Sleep, Thr, Timed, Fillable
<1>10. CASE Wake
  BY <1>10, WakeDoes
<1>11. CASE BeginBlock
  BY <1>11, BeginBlockQueue
<1>12. CASE PullLoad
  BY <1>12 DEF TypeOK, Commands, States, audVars, PullLoad
<1>13. CASE PullCopy
  BY <1>13, PullCopyDoes
<1>14. CASE PullStore
  BY <1>14, PullStoreDoes
<1>15. CASE EndBlock
  BY <1>15, EndBlockDoes
<1>16. CASE StartState
  BY <1>16 DEF TypeOK, Commands, States, audVars, StartState, Ctl, Store
<1>17. CASE StartSignal
  BY <1>17 DEF TypeOK, Commands, States, audVars, StartSignal, Ctl
<1>18. CASE StartBind
  BY <1>18, StartBindQueue
<1>19. ASSUME NEW n \in 1 .. Ring, PushWrite(n) PROVE Queue'
  BY <1>19, PushWriteDoes
<1>20. CASE Close
  BY <1>20 DEF TypeOK, Commands, States, audVars, Close, Store
<1>21. CASE CloseSignal
  BY <1>21 DEF TypeOK, Commands, States, audVars, CloseSignal, Ctl
<1>22. CASE DestroySignal
  BY <1>22 DEF TypeOK, Commands, States, audVars, DestroySignal, Ctl
<1>23. CASE DestroyJoin
  BY <1>23 DEF TypeOK, Commands, States, audVars, DestroyJoin, Ctl, Store
<1>24. ASSUME NEW loop \in BOOLEAN, StartLoop(loop) PROVE Queue'
  BY <1>24, StartLoopQueue
<1>25. CASE PushSpace
  BY <1>25, PushSpaceDoes
<1>26. CASE PushEnd
  BY <1>26 DEF TypeOK, Commands, States, audVars, PushEnd, Free, Store
<1>27. CASE Unload
  BY <1>27, UnloadQueue
<1>28. CASE DestroyStop
  BY <1>28 DEF TypeOK, Commands, States, audVars, DestroyStop
<1> QED BY <1>1, <1>2, <1>3, <1>4, <1>5, <1>6, <1>7, <1>8, <1>9, <1>10, <1>11, <1>12, <1>13, <1>14,
     <1>15, <1>16, <1>17, <1>18, <1>19, <1>20, <1>21, <1>22, <1>23, <1>24, <1>25, <1>26, <1>27, <1>28
     DEF Next, Thread, Audio, ControlStep, Call

\* Before the thread has begun the run, the stream, the thread and the voice are all at the start.
LEMMA BeginningStep ==
    ASSUME TypeOK, Roles, Queue, Once, Beginning, Pending, Cursors, EndMark, LoopFlag, Next
    PROVE  Beginning'
<1> USE StreamAssumption, LenType DEF Beginning, Roles, Starting, Restarting, Filling, Unbegun
<1>1. CASE Top
  BY <1>1 DEF TypeOK, Commands, States, audVars, Top, Thr
<1>2. CASE Reap
  BY <1>2 DEF TypeOK, Commands, States, audVars, Reap, Thr, Store
<1>3. CASE BeginRestart
  BY <1>3 DEF TypeOK, Commands, States, audVars, BeginRestart
<1>4. CASE Reset
  BY <1>4, ResetBeginning
<1>5. CASE LookOn
  BY <1>5 DEF TypeOK, Commands, States, audVars, LookOn, Thr, Fillable
<1>6. CASE FillBegin
  BY <1>6, FillBeginDoes
<1>7. CASE FillChunk
  BY <1>7, FillChunkDoes
<1>8. CASE FillEnd
  BY <1>8, FillEndDoes
<1>9. CASE Sleep
  BY <1>9 DEF TypeOK, Commands, States, audVars, Sleep, Thr, Timed, Fillable
<1>10. CASE Wake
  BY <1>10, WakeDoes
<1>11. CASE BeginBlock
  BY <1>11, BeginBlockDoes
<1>12. CASE PullLoad
  BY <1>12 DEF TypeOK, Commands, States, audVars, PullLoad
<1>13. CASE PullCopy
  BY <1>13, PullCopyBeginning
<1>14. CASE PullStore
  BY <1>14, PullStoreDoes
<1>15. CASE EndBlock
  BY <1>15, EndBlockDoes
<1>16. CASE StartState
  BY <1>16 DEF TypeOK, Commands, States, audVars, StartState, Ctl, Store
<1>17. CASE StartSignal
  BY <1>17 DEF TypeOK, Commands, States, audVars, StartSignal, Ctl
<1>18. CASE StartBind
  BY <1>18, StartBindDoes
<1>19. ASSUME NEW n \in 1 .. Ring, PushWrite(n) PROVE Beginning'
  BY <1>19, PushWriteDoes
<1>20. CASE Close
  BY <1>20 DEF TypeOK, Commands, States, audVars, Close, Store
<1>21. CASE CloseSignal
  BY <1>21 DEF TypeOK, Commands, States, audVars, CloseSignal, Ctl
<1>22. CASE DestroySignal
  BY <1>22 DEF TypeOK, Commands, States, audVars, DestroySignal, Ctl
<1>23. CASE DestroyJoin
  BY <1>23 DEF TypeOK, Commands, States, audVars, DestroyJoin, Ctl, Store
<1>24. ASSUME NEW loop \in BOOLEAN, StartLoop(loop) PROVE Beginning'
  BY <1>24, StartLoopBeginning
<1>25. CASE PushSpace
  BY <1>25, PushSpaceDoes
<1>26. CASE PushEnd
  BY <1>26 DEF TypeOK, Commands, States, audVars, PushEnd, Free, Store
<1>27. CASE Unload
  BY <1>27, UnloadDoes
<1>28. CASE DestroyStop
  BY <1>28 DEF TypeOK, Commands, States, audVars, DestroyStop
<1> QED BY <1>1, <1>2, <1>3, <1>4, <1>5, <1>6, <1>7, <1>8, <1>9, <1>10, <1>11, <1>12, <1>13, <1>14,
     <1>15, <1>16, <1>17, <1>18, <1>19, <1>20, <1>21, <1>22, <1>23, <1>24, <1>25, <1>26, <1>27, <1>28
     DEF Next, Thread, Audio, ControlStep, Call

\* Until the play is drained the voice neither plays nor has moved.
LEMMA PendingStep == ASSUME TypeOK, Roles, Queue, Once, Pending, Beginning, Next PROVE Pending'
<1> USE StreamAssumption, LenType DEF Pending, Roles, Starting, PlayQueued, PlayPending
<1>1. CASE Top
  BY <1>1 DEF TypeOK, Commands, States, audVars, Top, Thr
<1>2. CASE Reap
  BY <1>2 DEF TypeOK, Commands, States, audVars, Reap, Thr, Store
<1>3. CASE BeginRestart
  BY <1>3 DEF TypeOK, Commands, States, audVars, BeginRestart
<1>4. CASE Reset
  BY <1>4, ResetDoes
<1>5. CASE LookOn
  BY <1>5 DEF TypeOK, Commands, States, audVars, LookOn, Thr, Fillable
<1>6. CASE FillBegin
  BY <1>6, FillBeginDoes
<1>7. CASE FillChunk
  BY <1>7, FillChunkDoes
<1>8. CASE FillEnd
  BY <1>8, FillEndDoes
<1>9. CASE Sleep
  BY <1>9 DEF TypeOK, Commands, States, audVars, Sleep, Thr, Timed, Fillable
<1>10. CASE Wake
  BY <1>10, WakeDoes
<1>11. CASE BeginBlock
  BY <1>11, BeginBlockPending
<1>12. CASE PullLoad
  BY <1>12 DEF TypeOK, Commands, States, audVars, PullLoad
<1>13. CASE PullCopy
  BY <1>13, PullCopyDoes
<1>14. CASE PullStore
  BY <1>14, PullStoreDoes
<1>15. CASE EndBlock
  BY <1>15, EndBlockDoes
<1>16. CASE StartState
  BY <1>16 DEF TypeOK, Commands, States, audVars, StartState, Ctl, Store
<1>17. CASE StartSignal
  BY <1>17 DEF TypeOK, Commands, States, audVars, StartSignal, Ctl
<1>18. CASE StartBind
  BY <1>18, StartBindDoes
<1>19. ASSUME NEW n \in 1 .. Ring, PushWrite(n) PROVE Pending'
  BY <1>19, PushWriteDoes
<1>20. CASE Close
  BY <1>20 DEF TypeOK, Commands, States, audVars, Close, Store
<1>21. CASE CloseSignal
  BY <1>21 DEF TypeOK, Commands, States, audVars, CloseSignal, Ctl
<1>22. CASE DestroySignal
  BY <1>22 DEF TypeOK, Commands, States, audVars, DestroySignal, Ctl
<1>23. CASE DestroyJoin
  BY <1>23 DEF TypeOK, Commands, States, audVars, DestroyJoin, Ctl, Store
<1>24. ASSUME NEW loop \in BOOLEAN, StartLoop(loop) PROVE Pending'
  BY <1>24, StartLoopPending
<1>25. CASE PushSpace
  BY <1>25, PushSpaceDoes
<1>26. CASE PushEnd
  BY <1>26 DEF TypeOK, Commands, States, audVars, PushEnd, Free, Store
<1>27. CASE Unload
  BY <1>27, UnloadDoes
<1>28. CASE DestroyStop
  BY <1>28 DEF TypeOK, Commands, States, audVars, DestroyStop
<1> QED BY <1>1, <1>2, <1>3, <1>4, <1>5, <1>6, <1>7, <1>8, <1>9, <1>10, <1>11, <1>12, <1>13, <1>14,
     <1>15, <1>16, <1>17, <1>18, <1>19, <1>20, <1>21, <1>22, <1>23, <1>24, <1>25, <1>26, <1>27, <1>28
     DEF Next, Thread, Audio, ControlStep, Call

\* The four cursors stay in order, a ring apart at most.
LEMMA CursorsStep ==
    ASSUME TypeOK, Roles, Queue, Once, Beginning, Pending, Cursors, Next
    PROVE  Cursors'
<1> USE StreamAssumption, LenType DEF Cursors, Taken
<1>1. CASE Top
  BY <1>1 DEF TypeOK, Commands, States, audVars, Top, Thr
<1>2. CASE Reap
  BY <1>2 DEF TypeOK, Commands, States, audVars, Reap, Thr, Store
<1>3. CASE BeginRestart
  BY <1>3, BeginRestartCursors
<1>4. CASE Reset
  BY <1>4, ResetCursors
<1>5. CASE LookOn
  BY <1>5 DEF TypeOK, Commands, States, audVars, LookOn, Thr, Fillable
<1>6. CASE FillBegin
  BY <1>6, FillBeginCursors
<1>7. CASE FillChunk
  BY <1>7, FillChunkCursors
<1>8. CASE FillEnd
  BY <1>8, FillEndDoes
<1>9. CASE Sleep
  BY <1>9 DEF TypeOK, Commands, States, audVars, Sleep, Thr, Timed, Fillable
<1>10. CASE Wake
  BY <1>10, WakeDoes
<1>11. CASE BeginBlock
  BY <1>11, BeginBlockCursors
<1>12. CASE PullLoad
  BY <1>12 DEF TypeOK, Commands, States, audVars, PullLoad
<1>13. CASE PullCopy
  BY <1>13, PullCopyCursors
<1>14. CASE PullStore
  BY <1>14, PullStoreCursors
<1>15. CASE EndBlock
  BY <1>15, EndBlockCursors
<1>16. CASE StartState
  BY <1>16 DEF TypeOK, Commands, States, audVars, StartState, Ctl, Store
<1>17. CASE StartSignal
  BY <1>17 DEF TypeOK, Commands, States, audVars, StartSignal, Ctl
<1>18. CASE StartBind
  BY <1>18, StartBindDoes
<1>19. ASSUME NEW n \in 1 .. Ring, PushWrite(n) PROVE Cursors'
  BY <1>19, PushWriteCursors
<1>20. CASE Close
  BY <1>20 DEF TypeOK, Commands, States, audVars, Close, Store
<1>21. CASE CloseSignal
  BY <1>21 DEF TypeOK, Commands, States, audVars, CloseSignal, Ctl
<1>22. CASE DestroySignal
  BY <1>22 DEF TypeOK, Commands, States, audVars, DestroySignal, Ctl
<1>23. CASE DestroyJoin
  BY <1>23 DEF TypeOK, Commands, States, audVars, DestroyJoin, Ctl, Store
<1>24. ASSUME NEW loop \in BOOLEAN, StartLoop(loop) PROVE Cursors'
  BY <1>24, StartLoopDoes
<1>25. CASE PushSpace
  BY <1>25, PushSpaceCursors
<1>26. CASE PushEnd
  BY <1>26 DEF TypeOK, Commands, States, audVars, PushEnd, Free, Store
<1>27. CASE Unload
  BY <1>27, UnloadDoes
<1>28. CASE DestroyStop
  BY <1>28 DEF TypeOK, Commands, States, audVars, DestroyStop
<1> QED BY <1>1, <1>2, <1>3, <1>4, <1>5, <1>6, <1>7, <1>8, <1>9, <1>10, <1>11, <1>12, <1>13, <1>14,
     <1>15, <1>16, <1>17, <1>18, <1>19, <1>20, <1>21, <1>22, <1>23, <1>24, <1>25, <1>26, <1>27, <1>28
     DEF Next, Thread, Audio, ControlStep, Call

\* An end mark stands where the producer stopped.
LEMMA EndMarkStep ==
    ASSUME TypeOK, Roles, Queue, Once, Beginning, Pending, Cursors, EndMark, LoopFlag, Next
    PROVE  EndMark'
<1> USE StreamAssumption, LenType DEF EndMark, Roles, Restarting, Filling
<1>1. CASE Top
  BY <1>1 DEF TypeOK, Commands, States, audVars, Top, Thr
<1>2. CASE Reap
  BY <1>2 DEF TypeOK, Commands, States, audVars, Reap, Thr, Store
<1>3. CASE BeginRestart
  BY <1>3, BeginRestartEndMark
<1>4. CASE Reset
  BY <1>4, ResetDoes
<1>5. CASE LookOn
  BY <1>5 DEF TypeOK, Commands, States, audVars, LookOn, Thr, Fillable
<1>6. CASE FillBegin
  BY <1>6, FillBeginDoes
<1>7. CASE FillChunk
  BY <1>7, FillChunkEndMark
<1>8. CASE FillEnd
  BY <1>8, FillEndEndMark
<1>9. CASE Sleep
  BY <1>9 DEF TypeOK, Commands, States, audVars, Sleep, Thr, Timed, Fillable
<1>10. CASE Wake
  BY <1>10, WakeDoes
<1>11. CASE BeginBlock
  BY <1>11, BeginBlockDoes
<1>12. CASE PullLoad
  BY <1>12 DEF TypeOK, Commands, States, audVars, PullLoad
<1>13. CASE PullCopy
  BY <1>13, PullCopyDoes
<1>14. CASE PullStore
  BY <1>14, PullStoreDoes
<1>15. CASE EndBlock
  BY <1>15, EndBlockDoes
<1>16. CASE StartState
  BY <1>16 DEF TypeOK, Commands, States, audVars, StartState, Ctl, Store
<1>17. CASE StartSignal
  BY <1>17 DEF TypeOK, Commands, States, audVars, StartSignal, Ctl
<1>18. CASE StartBind
  BY <1>18, StartBindDoes
<1>19. ASSUME NEW n \in 1 .. Ring, PushWrite(n) PROVE EndMark'
  BY <1>19, PushWriteDoes
<1>20. CASE Close
  BY <1>20 DEF TypeOK, Commands, States, audVars, Close, Store
<1>21. CASE CloseSignal
  BY <1>21 DEF TypeOK, Commands, States, audVars, CloseSignal, Ctl
<1>22. CASE DestroySignal
  BY <1>22 DEF TypeOK, Commands, States, audVars, DestroySignal, Ctl
<1>23. CASE DestroyJoin
  BY <1>23 DEF TypeOK, Commands, States, audVars, DestroyJoin, Ctl, Store
<1>24. ASSUME NEW loop \in BOOLEAN, StartLoop(loop) PROVE EndMark'
  BY <1>24, StartLoopDoes
<1>25. CASE PushSpace
  BY <1>25, PushSpaceDoes
<1>26. CASE PushEnd
  BY <1>26 DEF TypeOK, Commands, States, audVars, PushEnd, Free, Store
<1>27. CASE Unload
  BY <1>27, UnloadDoes
<1>28. CASE DestroyStop
  BY <1>28 DEF TypeOK, Commands, States, audVars, DestroyStop
<1> QED BY <1>1, <1>2, <1>3, <1>4, <1>5, <1>6, <1>7, <1>8, <1>9, <1>10, <1>11, <1>12, <1>13, <1>14,
     <1>15, <1>16, <1>17, <1>18, <1>19, <1>20, <1>21, <1>22, <1>23, <1>24, <1>25, <1>26, <1>27, <1>28
     DEF Next, Thread, Audio, ControlStep, Call

LEMMA StartBindLoopFlag == ASSUME TypeOK, Roles, LoopFlag, StartBind PROVE LoopFlag'
<1>1. /\ UNCHANGED <<push, st, thr, voice>> /\ \A f \in {"loop", "plays"} : ctl'[f] = ctl[f]
      /\ \/ cmd' = cmd
         \/ \A k \in 1 .. Len(cmd') : \/ k \in 1 .. Len(cmd) /\ cmd'[k] = cmd[k]
                                      \/ cmd'[k].t = "play" /\ cmd'[k].loop = ctl.loop
  BY StartBindDoes
<1>2. ~push
  BY StartBindDoes DEF Roles, Starting
<1>3. ASSUME NEW k \in 1 .. Len(cmd'), cmd'[k].t = "play" PROVE cmd'[k].loop = ctl.loop
  BY <1>1, <1>2, <1>3 DEF LoopFlag
<1> QED BY <1>1, <1>2, <1>3 DEF LoopFlag, Restarting, Filling

\* The call, the stream, the thread, the command and the voice agree on looping.
LEMMA LoopFlagStep ==
    ASSUME TypeOK, Roles, Queue, Once, Beginning, Pending, LoopFlag, EndMark, Next
    PROVE  LoopFlag'
<1> USE StreamAssumption, LenType DEF LoopFlag, Beginning, Roles, Starting, Restarting, Filling, Unbegun
<1>1. CASE Top
  BY <1>1 DEF TypeOK, Commands, States, audVars, Top, Thr
<1>2. CASE Reap
  BY <1>2 DEF TypeOK, Commands, States, audVars, Reap, Thr, Store
<1>3. CASE BeginRestart
  BY <1>3 DEF TypeOK, Commands, States, audVars, BeginRestart
<1>4. CASE Reset
  BY <1>4, ResetDoes
<1>5. CASE LookOn
  BY <1>5 DEF TypeOK, Commands, States, audVars, LookOn, Thr, Fillable
<1>6. CASE FillBegin
  BY <1>6, FillBeginDoes
<1>7. CASE FillChunk
  BY <1>7, FillChunkDoes
<1>8. CASE FillEnd
  BY <1>8, FillEndDoes
<1>9. CASE Sleep
  BY <1>9 DEF TypeOK, Commands, States, audVars, Sleep, Thr, Timed, Fillable
<1>10. CASE Wake
  BY <1>10, WakeDoes
<1>11. CASE BeginBlock
  BY <1>11, BeginBlockLoopFlag
<1>12. CASE PullLoad
  BY <1>12 DEF TypeOK, Commands, States, audVars, PullLoad
<1>13. CASE PullCopy
  BY <1>13, PullCopyDoes
<1>14. CASE PullStore
  BY <1>14, PullStoreDoes
<1>15. CASE EndBlock
  BY <1>15, EndBlockDoes
<1>16. CASE StartState
  BY <1>16 DEF TypeOK, Commands, States, audVars, StartState, Ctl, Store
<1>17. CASE StartSignal
  BY <1>17 DEF TypeOK, Commands, States, audVars, StartSignal, Ctl
<1>18. CASE StartBind
  BY <1>18, StartBindLoopFlag
<1>19. ASSUME NEW n \in 1 .. Ring, PushWrite(n) PROVE LoopFlag'
  BY <1>19, PushWriteDoes
<1>20. CASE Close
  BY <1>20 DEF TypeOK, Commands, States, audVars, Close, Store
<1>21. CASE CloseSignal
  BY <1>21 DEF TypeOK, Commands, States, audVars, CloseSignal, Ctl
<1>22. CASE DestroySignal
  BY <1>22 DEF TypeOK, Commands, States, audVars, DestroySignal, Ctl
<1>23. CASE DestroyJoin
  BY <1>23 DEF TypeOK, Commands, States, audVars, DestroyJoin, Ctl, Store
<1>24. ASSUME NEW loop \in BOOLEAN, StartLoop(loop) PROVE LoopFlag'
  BY <1>24, StartLoopLoopFlag
<1>25. CASE PushSpace
  BY <1>25, PushSpaceDoes
<1>26. CASE PushEnd
  BY <1>26 DEF TypeOK, Commands, States, audVars, PushEnd, Free, Store
<1>27. CASE Unload
  BY <1>27, UnloadLoopFlag
<1>28. CASE DestroyStop
  BY <1>28 DEF TypeOK, Commands, States, audVars, DestroyStop
<1> QED BY <1>1, <1>2, <1>3, <1>4, <1>5, <1>6, <1>7, <1>8, <1>9, <1>10, <1>11, <1>12, <1>13, <1>14,
     <1>15, <1>16, <1>17, <1>18, <1>19, <1>20, <1>21, <1>22, <1>23, <1>24, <1>25, <1>26, <1>27, <1>28
     DEF Next, Thread, Audio, ControlStep, Call

\* The types; only a push needs the cursors for it.
LEMMA TypeOKStep == ASSUME TypeOK, Roles, Queue, push => Cursors, Next PROVE TypeOK'
<1> USE Sizes DEF Roles
<1>1. CASE Top
  BY <1>1, TypeParts, TypePartsPrime, Sizes, Ints DEF RestOK, StType, ThrType, VoiceType, AudType,
       CtlType, States, audVars, None, Top, Thr
<1>2. CASE Reap
  BY <1>2, TypeParts, TypePartsPrime, Sizes, Ints DEF RestOK, StType, ThrType, VoiceType, AudType,
       CtlType, States, audVars, None, Reap, Thr, Store
<1>3. CASE BeginRestart
  BY <1>3, BeginRestartType
<1>4. CASE Reset
  BY <1>4, ResetType
<1>5. CASE LookOn
  BY <1>5, TypeParts, TypePartsPrime, Sizes, Ints DEF RestOK, StType, ThrType, VoiceType, AudType,
       CtlType, States, audVars, None, LookOn, Thr, Fillable
<1>6. CASE FillBegin
  BY <1>6, FillBeginType
<1>7. CASE FillChunk
  BY <1>7, FillChunkType
<1>8. CASE FillEnd
  BY <1>8, TypeParts, TypePartsPrime, Sizes, Ints DEF RestOK, StType, ThrType, VoiceType, AudType,
       CtlType, States, audVars, None, FillEnd, Store
<1>9. CASE Sleep
  BY <1>9, TypeParts, TypePartsPrime, Sizes, Ints DEF RestOK, StType, ThrType, VoiceType, AudType,
       CtlType, States, audVars, None, Sleep, Thr, Timed, Fillable
<1>10. CASE Wake
  BY <1>10, TypeParts, TypePartsPrime, Sizes, Ints DEF RestOK, StType, ThrType, VoiceType, AudType,
       CtlType, States, audVars, None, Wake, Thr
<1>11. CASE BeginBlock
  BY <1>11, BeginBlockType
<1>12. CASE PullLoad
  BY <1>12, TypeParts, TypePartsPrime, Sizes, Ints DEF RestOK, StType, ThrType, VoiceType, AudType,
       CtlType, States, audVars, None, PullLoad
<1>13. CASE PullCopy
  BY <1>13, PullCopyType
<1>14. CASE PullStore
  BY <1>14, PullStoreType
<1>15. CASE EndBlock
  BY <1>15, EndBlockType
<1>16. CASE StartState
  BY <1>16, TypeParts, TypePartsPrime, Sizes, Ints DEF RestOK, StType, ThrType, VoiceType, AudType,
       CtlType, States, audVars, None, StartState, Ctl, Store
<1>17. CASE StartSignal
  BY <1>17, TypeParts, TypePartsPrime, Sizes, Ints DEF RestOK, StType, ThrType, VoiceType, AudType,
       CtlType, States, audVars, None, StartSignal, Ctl
<1>18. CASE StartBind
  BY <1>18, StartBindType
<1>19. ASSUME NEW n \in 1 .. Ring, PushWrite(n) PROVE TypeOK'
  BY <1>19, PushWriteType
<1>20. CASE Close
  BY <1>20, TypeParts, TypePartsPrime, Sizes, Ints DEF RestOK, StType, ThrType, VoiceType, AudType,
       CtlType, States, audVars, None, Close, Store
<1>21. CASE CloseSignal
  BY <1>21, TypeParts, TypePartsPrime, Sizes, Ints DEF RestOK, StType, ThrType, VoiceType, AudType,
       CtlType, States, audVars, None, CloseSignal, Ctl
<1>22. CASE DestroySignal
  BY <1>22, TypeParts, TypePartsPrime, Sizes, Ints DEF RestOK, StType, ThrType, VoiceType, AudType,
       CtlType, States, audVars, None, DestroySignal, Ctl
<1>23. CASE DestroyJoin
  BY <1>23, TypeParts, TypePartsPrime, Sizes, Ints DEF RestOK, StType, ThrType, VoiceType, AudType,
       CtlType, States, audVars, None, DestroyJoin, Ctl, Store
<1>24. ASSUME NEW loop \in BOOLEAN, StartLoop(loop) PROVE TypeOK'
  BY <1>24, StartLoopType
<1>25. CASE PushSpace
  BY <1>25, PushSpaceType DEF PushSpace
<1>26. CASE PushEnd
  BY <1>26, TypeParts, TypePartsPrime, Sizes, Ints DEF RestOK, StType, ThrType, VoiceType, AudType,
       CtlType, States, audVars, None, PushEnd, Free, Store
<1>27. CASE Unload
  BY <1>27, UnloadType
<1>28. CASE DestroyStop
  BY <1>28, TypeParts, TypePartsPrime, Sizes, Ints DEF RestOK, StType, ThrType, VoiceType, AudType,
       CtlType, States, audVars, None, DestroyStop
<1> QED BY <1>1, <1>2, <1>3, <1>4, <1>5, <1>6, <1>7, <1>8, <1>9, <1>10, <1>11, <1>12, <1>13, <1>14,
     <1>15, <1>16, <1>17, <1>18, <1>19, <1>20, <1>21, <1>22, <1>23, <1>24, <1>25, <1>26, <1>27, <1>28
     DEF Next, Thread, Audio, ControlStep, Call

-----------------------------------------------------------------------------
(* The theorems. *)

\* The initial state.
LEMMA InitIInv == Init => StreamIInv
<1> SUFFICES ASSUME Init PROVE StreamIInv
  OBVIOUS
<1>1. TypeOK
  <2>1. push \in BOOLEAN /\ 0 \in 0 .. PosMax /\ 0 \in 0 .. PosMax + Ring /\ 0 \in 0 .. FileLen
        /\ 0 \in 0 .. Ring /\ 0 \in 0 .. Plays
    BY StreamAssumption, Sizes DEF Init
  <2>2. RestOK
    <3>1. ring \in [0 .. Ring - 1 -> Samples]
      BY DEF Init, Samples
    <3>2. cmd \in Seq(Commands) /\ Len(cmd) <= Plays + 2
      <4>1. [t |-> "play", loop |-> FALSE] \in Commands
        BY DEF Commands
      <4> QED BY <4>1, Sizes DEF Init
    <3>3. Len(aud.buf) = 0
      BY DEF Init
    <3>4. push \in Kinds /\ wake \in BOOLEAN /\ stop \in BOOLEAN /\ wpriv = 0
      BY DEF Init
    <3> QED BY <2>1, <3>1, <3>2, <3>3, <3>4, Sizes DEF RestOK
  <2>3. st \in StType
    BY <2>1 DEF Init, StType, States
  <2>4. thr \in ThrType
    BY <2>1 DEF Init, ThrType
  <2>5. voice \in VoiceType
    BY <2>1 DEF Init, VoiceType
  <2>6. aud \in AudType
    BY <2>1 DEF Init, AudType
  <2>7. ctl \in CtlType
    BY <2>1 DEF Init, CtlType
  <2> QED BY <2>2, <2>3, <2>4, <2>5, <2>6, <2>7, TypeParts
<1>2. /\ thr.pc = "top" /\ ~thr.done /\ thr.dec = 0 /\ wpriv = 0 /\ ctl.pc = "idle" /\ ctl.plays = 0 /\ ctl.retire = "no"
      /\ aud.pc = "idle" /\ aud.w = 0 /\ aud.buf = <<>> /\ ~voice.playing /\ voice.pos = 0 /\ ~voice.loop
      /\ st.r = 0 /\ st.w = 0 /\ st.eof = None /\ (~push => st.state = "idle") /\ st.state # "restart"
  BY DEF Init
<1>3. Roles
  BY <1>2 DEF Roles, Starting, Restarting, Filling
<1>4. /\ Len(cmd) = IF push THEN 1 ELSE 0
      /\ \A k \in 1 .. Len(cmd) : cmd[k].t = "play" /\ ~cmd[k].loop
  BY DEF Init
<1>5. Queue
  BY <1>2, <1>4 DEF Queue, Starting
<1>6. Beginning /\ Pending /\ EndMark
  <2>1. PlayQueued => push
    BY <1>4 DEF PlayQueued
  <2> QED BY <1>2, <2>1 DEF Beginning, Pending, EndMark, Restarting, Filling, Starting
<1>7. Cursors /\ Held
  <2>1. Taken = 0
    BY <1>2 DEF Taken
  <2> QED BY <1>2, <2>1, Sizes DEF Cursors, Held
<1>8. LoopFlag
  BY <1>2, <1>4 DEF LoopFlag, Restarting, Filling
<1> QED BY <1>1, <1>3, <1>5, <1>6, <1>7, <1>8 DEF StreamIInv, Run

\* Every step.
LEMMA NextIInv == ASSUME StreamIInv, [Next]_vars PROVE StreamIInv'
<1>1. TypeOK /\ Roles /\ Queue /\ (Once => Run)
  BY DEF StreamIInv
<1>2. CASE UNCHANGED vars
  <2> USE <1>2 DEF vars
  <2>1. TypeOK' /\ Roles' /\ Queue'
    BY <1>1 DEF TypeOK, Roles, Queue, Starting, Restarting, Filling
  <2>2. Once' <=> Once
    BY DEF Once
  <2>3. Run => Beginning' /\ Pending' /\ Cursors'
    BY DEF Run, Beginning, Pending, Cursors, Starting, Restarting, Filling, Unbegun, PlayPending,
         PlayQueued, Taken
  <2>4. Run => Held' /\ EndMark' /\ LoopFlag'
    BY DEF Run, Held, EndMark, LoopFlag, Restarting, Filling, Taken
  <2> QED BY <1>1, <2>1, <2>2, <2>3, <2>4 DEF StreamIInv, Run
<1>3. CASE Next
  <2>1. TypeOK'
    BY <1>1, <1>3, TypeOKStep DEF Once, Run
  <2>2. Roles' /\ Queue'
    BY <1>1, <1>3, RolesStep, QueueStep
  <2>3. push' = push
    BY <1>3 DEF Next, Thread, Audio, ControlStep, Call, Top, Reap, BeginRestart, Reset, LookOn,
         FillBegin, FillChunk,
          FillEnd, Sleep, Wake, BeginBlock, PullLoad, PullCopy, PullStore, EndBlock, StartLoop, StartState, StartSignal,
          StartBind, PushSpace, PushWrite, PushEnd, Unload, Close, CloseSignal, DestroyStop, DestroySignal, DestroyJoin
  <2>4. ASSUME Once PROVE Run'
    <3>1. Beginning /\ Pending /\ Cursors /\ Held /\ EndMark /\ LoopFlag
      BY <1>1, <2>4 DEF Run
    <3>2. Beginning' /\ Pending' /\ Cursors'
      BY <1>1, <1>3, <2>4, <3>1, BeginningStep, PendingStep, CursorsStep
    <3>3. EndMark' /\ LoopFlag'
      BY <1>1, <1>3, <2>4, <3>1, EndMarkStep, LoopFlagStep
    <3>4. Held'
      BY <1>1, <1>3, <2>1, <2>4, <3>1, <3>2, HeldStep
    <3> QED BY <3>2, <3>3, <3>4 DEF Run
  <2> QED BY <2>1, <2>2, <2>3, <2>4 DEF StreamIInv, Once
<1> QED BY <1>2, <1>3

\* StreamIInv holds of every reachable state, for every size of ring, chunk, block and file.
THEOREM Invariant == Spec => []StreamIInv
<1> QED BY InitIInv, NextIInv, PTL DEF Spec

\* Every field of the stream, its thread, its voice and its controls has its type: the cursors are

\* bounded, and a block never holds more than its size (stream.c, rt.c mix_voice).
THEOREM TypeCorrect == Spec => []TypeOK
<1>1. StreamIInv => TypeOK
  BY DEF StreamIInv
<1> QED BY <1>1, Invariant, PTL

\* The stream begins as an empty channel.
LEMMA ChannelInit == Init => Channel!Init
<1> SUFFICES ASSUME Init PROVE Channel!Init
  OBVIOUS
<1> QED BY DEF Init, Taken, Channel!Init

\* More samples behind the producer's cursor, no further than a ring ahead: the channel supplies.
LEMMA SuppliedStep ==
    ASSUME StreamIInv, Once, aud'.buf = aud.buf, Taken' = Taken, NEW n \in Nat, st'.w = wpriv + n, st'.w <= st.r + Ring
    PROVE  [Channel!Next]_(Channel!vars)
<1>1. Cursors /\ TypeOK
  BY DEF StreamIInv, Run
<1>2. st.w = wpriv /\ wpriv \in Nat /\ st.r <= Taken /\ Taken <= st.w /\ Taken \in Nat /\ Ring \in Nat /\ st.r \in Nat
  BY <1>1, TakenType, Ints DEF Cursors
<1>3. CASE n = 0
  <2>1. st'.w = st.w
    BY <1>2, <1>3
  <2> QED BY <2>1 DEF Channel!vars
<1>4. CASE n # 0
  <2>1. n \in 1 .. Ring /\ st.w + n <= Taken + Ring /\ st'.w = st.w + n
    BY <1>2, <1>4
  <2>2. Channel!Supply
    BY <2>1 DEF Channel!Supply
  <2> QED BY <2>2 DEF Channel!Next
<1> QED BY <1>3, <1>4

\* The copy out of the ring: the channel delivers, in order, what was supplied.
LEMMA TakenStep ==
    ASSUME StreamIInv, Once, PullCopy PROVE Channel!Take
<1>1. Cursors /\ TypeOK /\ Held
  BY DEF StreamIInv, Run
<1>2. /\ UNCHANGED <<st, voice>> /\ aud.pc = "copy" /\ aud'.pc = "store"
  BY <1>1, PullCopyDoes
<1>3. PICK got \in 0 .. Block :
         /\ got = 0 \/ voice.pos + got <= aud.w
         /\ aud'.buf = [k \in 1 .. got |-> ring[(voice.pos + k - 1) % Ring]]
         /\ Len(aud'.buf) = got
  BY <1>1, PullCopyDoes
<1>4. Taken = voice.pos /\ Taken' = voice.pos + got /\ voice.pos \in Nat /\ st.w \in Nat /\ got \in Nat
  BY <1>1, <1>2, <1>3, Ints, Sizes DEF Taken
<1>5. got \in 0 .. st.w - Taken
  <2>1. Taken <= st.w /\ aud.w <= st.w /\ aud.w \in Nat
    BY <1>1, Ints DEF Cursors
  <2> QED BY <1>3, <1>4, <2>1
<1>6. ASSUME NEW k \in 1 .. got PROVE ring[(voice.pos + k - 1) % Ring] = Frame(Taken + k - 1)
  <2>1. voice.pos + k - 1 \in Nat /\ Taken <= voice.pos + k - 1 /\ voice.pos + k - 1 < st.w
    BY <1>4, <1>5
  <2> QED BY <1>1, <1>4, <2>1 DEF Held
<1>7. aud'.buf = [k \in 1 .. got |-> Frame(Taken + k - 1)]
  BY <1>3, <1>6
<1> QED BY <1>2, <1>4, <1>5, <1>7 DEF Channel!Take

\* Every step of the stream is a step of the channel, or none.
LEMMA ChannelStep == ASSUME StreamIInv, StreamIInv', Once, Next PROVE [Channel!Next]_(Channel!vars)
<1>0. TypeOK /\ Roles /\ Queue /\ Beginning /\ Pending /\ Cursors /\ Cursors'
  <2>1. push' = push
    BY DEF Next, Thread, Audio, ControlStep, Call, Top, Reap, BeginRestart, Reset, LookOn, FillBegin,
         FillChunk,
          FillEnd, Sleep, Wake, BeginBlock, PullLoad, PullCopy, PullStore, EndBlock, StartLoop, StartState, StartSignal,
          StartBind, PushSpace, PushWrite, PushEnd, Unload, Close, CloseSignal, DestroyStop, DestroySignal, DestroyJoin
  <2> QED BY <2>1 DEF StreamIInv, Run, Once
<1>1. ASSUME UNCHANGED <<voice, aud>>, st'.w = st.w PROVE UNCHANGED Channel!vars
  BY <1>1 DEF Channel!vars, Taken
<1>2. CASE Thread
  <2>1. CASE Reset
    <3>1. Restarting /\ ~push
      BY <1>0, <2>1, ResetDoes DEF Restarting, Roles
    <3>2. st.w = 0
      BY <1>0, <3>1 DEF Beginning, Unbegun
    <3>3. UNCHANGED <<voice, aud>> /\ st'.w = st.w
      BY <1>0, <2>1, <3>2, ResetDoes
    <3> QED BY <1>1, <3>3
  <2>2. CASE FillChunk
    <3>1. UNCHANGED <<voice, aud>> /\ st'.r = st.r
      BY <1>0, <2>2, FillChunkDoes
    <3>2. \/ UNCHANGED st
          \/ \E got \in Nat : st'.w = wpriv + got
      <4>1. CASE wpriv >= thr.target /\ UNCHANGED <<st, wpriv, ring>>
        BY <4>1
      <4>2. CASE \E want, got \in Nat : ring' = Write(wpriv, got) /\ st'.w = wpriv + got
        BY <4>2
      <4> QED BY <1>0, <2>2, <4>1, <4>2, FillChunkDoes
    <3>3. Taken' = Taken /\ st'.w <= st.r + Ring
      BY <1>0, <3>1 DEF Taken, Cursors
    <3> QED BY <1>1, <3>1, <3>2, <3>3, SuppliedStep
  <2>3. CASE Top \/ Reap \/ BeginRestart \/ LookOn \/ FillBegin \/ FillEnd \/ Sleep \/ Wake
    <3>1. UNCHANGED <<voice, aud>> /\ st'.w = st.w
      BY <1>0, <2>3, TypeParts DEF Top, Reap, BeginRestart, LookOn, FillBegin, FillEnd, Sleep, Wake,
           Store, StType, audVars
    <3> QED BY <1>1, <3>1
  <2> QED BY <1>2, <2>1, <2>2, <2>3 DEF Thread
<1>3. CASE Audio
  <2>1. CASE BeginBlock
    <3>1. UNCHANGED st /\ aud'.buf = aud.buf
      BY <1>0, <2>1, BeginBlockDoes
    <3>2. Taken' = Taken
      BY <1>0, <2>1, BeginBlockCursors
    <3> QED BY <3>1, <3>2 DEF Channel!vars
  <2>2. CASE PullLoad
    <3>1. UNCHANGED <<st, voice>> /\ aud.pc = "load" /\ aud'.pc = "copy" /\ aud'.buf = aud.buf
      BY <1>0, <2>2, TypeParts DEF PullLoad, AudType
    <3> QED BY <3>1 DEF Channel!vars, Taken
  <2>3. CASE PullCopy
    BY <2>3, TakenStep DEF Channel!Next
  <2>4. CASE PullStore
    <3>1. UNCHANGED voice /\ aud.pc = "store" /\ aud'.pc = "ended" /\ aud'.buf = aud.buf /\ st'.w = st.w
      BY <1>0, <2>4, PullStoreDoes
    <3> QED BY <3>1 DEF Channel!vars, Taken
  <2>5. CASE EndBlock
    <3>1. UNCHANGED st /\ aud'.buf = aud.buf
      BY <1>0, <2>5, EndBlockDoes
    <3>2. Taken' = Taken
      BY <1>0, <2>5, EndBlockCursors
    <3> QED BY <3>1, <3>2 DEF Channel!vars
  <2> QED BY <1>3, <2>1, <2>2, <2>3, <2>4, <2>5 DEF Audio
<1>4. CASE ControlStep
  <2>1. ASSUME NEW n \in 1 .. Ring, PushWrite(n) PROVE [Channel!Next]_(Channel!vars)
    <3>1. PICK put \in 0 .. Ring : st'.w = wpriv + put
      BY <1>0, <2>1, PushWriteDoes
    <3>2. UNCHANGED <<voice, aud>> /\ st'.r = st.r
      BY <1>0, <2>1, PushWriteDoes
    <3>3. Taken' = Taken /\ st'.w <= st.r + Ring /\ put \in Nat
      BY <1>0, <3>2 DEF Taken, Cursors
    <3> QED BY <3>1, <3>2, <3>3, SuppliedStep
  <2>2. CASE StartState \/ StartSignal \/ StartBind \/ Close \/ CloseSignal \/ DestroySignal \/ DestroyJoin
    <3>1. UNCHANGED <<voice, aud>> /\ st'.w = st.w
      BY <1>0, <2>2, TypeParts DEF StartState, StartSignal, StartBind, Close, CloseSignal, DestroySignal,
           DestroyJoin, Store, StType, audVars
    <3> QED BY <1>1, <3>1
  <2> QED BY <1>4, <2>1, <2>2 DEF ControlStep
<1>5. CASE Call
  <2>1. ASSUME NEW loop \in BOOLEAN, StartLoop(loop) PROVE UNCHANGED Channel!vars
    BY <1>0, <1>1, <2>1, StartLoopDoes
  <2>2. CASE PushSpace \/ PushEnd \/ Unload
    <3>1. UNCHANGED <<voice, aud>> /\ st'.w = st.w
      BY <1>0, <2>2, TypeParts DEF PushSpace, PushEnd, Unload, Store, StType, audVars
    <3> QED BY <1>1, <3>1
  <2>3. CASE DestroyStop
    <3>1. UNCHANGED st /\ voice'.pos = voice.pos /\ aud.pc = "idle" /\ aud'.pc = "off" /\ aud'.buf = aud.buf
      BY <1>0, <2>3, TypeParts DEF DestroyStop, VoiceType, AudType
    <3> QED BY <3>1 DEF Channel!vars, Taken
  <2> QED BY <1>5, <2>1, <2>2, <2>3 DEF Call
<1> QED BY <1>2, <1>3, <1>4, <1>5 DEF Next

\* For a stream that is started at most once, what the voice hears is what an ordered channel of the

\* ring's capacity delivers: every sample once, in order, none before it was decoded or pushed, and none
\* overwritten before it was heard (stream.c stream_pull, stream_thread, stream_push).
THEOREM ChannelImplemented == ASSUME Plays <= 1 PROVE Spec => ImplementsChannel
<1>1. Init => Channel!Init
  BY ChannelInit
<1>2. StreamIInv /\ StreamIInv' /\ [Next]_vars => [Channel!Next]_(Channel!vars)
  <2>1. ASSUME UNCHANGED vars PROVE UNCHANGED Channel!vars
    BY <2>1 DEF vars, Channel!vars, Taken
  <2> QED BY <2>1, ChannelStep DEF Once
<1> QED BY <1>1, <1>2, Invariant, PTL DEF Spec, ImplementsChannel, Channel!Spec

\* A block that ends the voice has reached the end mark, and the mark stands at the end.
LEMMA EndStep ==
    ASSUME StreamIInv, Once, Next, voice.playing, aud.pc = "ended", ~voice'.playing
    PROVE  voice'.pos = (IF push THEN wpriv ELSE FileLen) /\ ~voice.loop
<1>0. TypeOK /\ Roles /\ Cursors /\ EndMark /\ LoopFlag
  BY DEF StreamIInv, Run
<1>1. EndBlock
  <2>1. ~BeginBlock
    BY DEF BeginBlock
  <2>2. ~DestroyStop
    BY DEF DestroyStop
  <2>3. voice' # voice
    OBVIOUS
  <2> QED BY <2>1, <2>2, <2>3 DEF Next, Thread, Audio, ControlStep, Call, audVars, Top, Reap,
       BeginRestart, Reset, LookOn,
          FillBegin, FillChunk, FillEnd, Sleep, Wake, PullLoad, PullCopy, PullStore, StartLoop, StartState, StartSignal,
          StartBind, PushSpace, PushWrite, PushEnd, Unload, Close, CloseSignal, DestroySignal, DestroyJoin
<1>2. voice'.pos = voice.pos + Len(aud.buf) /\ st.eof # None /\ voice.pos + Len(aud.buf) >= st.eof
  BY <1>0, <1>1, EndBlockDoes DEF Ended
<1>3. st.eof = wpriv /\ wpriv = st.w /\ Taken <= st.w /\ Taken = voice.pos + Len(aud.buf)
  BY <1>0, <1>2 DEF EndMark, Cursors, Taken
<1>4. voice'.pos = wpriv
  <2>1. Taken <= wpriv /\ Taken >= wpriv
    BY <1>2, <1>3
  <2> QED BY <1>0, <1>2, <1>3, <2>1, TakenType, Ints
<1>5. CASE push
  BY <1>0, <1>4, <1>5 DEF LoopFlag
<1>6. CASE ~push
  BY <1>0, <1>2, <1>4, <1>6 DEF LoopFlag, EndMark
<1> QED BY <1>5, <1>6

\* For a stream that is started at most once, a voice that ends has played to the end of the file, or

\* of what was pushed, and was not looping (rt.c mix_voice, stream.c stream_ended).
THEOREM EndsOnlyAtTheEnd == ASSUME Plays <= 1 PROVE Spec => EndsAtTheEnd
<1>1. StreamIInv /\ [Next]_vars
        => [voice.playing /\ aud.pc = "ended" /\ ~voice'.playing
              => voice'.pos = (IF push THEN wpriv ELSE FileLen) /\ ~voice.loop]_vars
  BY EndStep DEF Once
<1> QED BY <1>1, Invariant, PTL DEF Spec, EndsAtTheEnd
=============================================================================
