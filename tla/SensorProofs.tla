---------------------------- MODULE SensorProofs ----------------------------
(***************************************************************************)
(* Proofs about Sensor for any modes, channels, rates, gains and levels.   *)
(***************************************************************************)
EXTENDS Sensor, TLAPS

(***************************************************************************)
(* The invariant.                                                          *)
(***************************************************************************)
Wb(c) == <<"wb", c>>
Blc(c) == <<"blc", c>>

\* The gains remembered are in force, and so are the offsets that follow them.
WbHeld ==
    /\ (\A c \in Channels : wb[c] # 0) \/ (\A c \in Channels : wb[c] = 0)
    /\ \A c \in Channels :
         wb[c] # 0 => /\ regs[Wb(c)] = wb[c]
                      /\ granted[Blc(c)] # Unknown => granted[Blc(c)] = Offset(wb[c], blc)

Held == \A n \in Names : granted[n] # Unknown => regs[n] = granted[n]

FpsHeld == granted[Reg("fps")] # Unknown => regs[Reg("fps")] = cur_fps

\* The status is what the register holds, or what the one s_stream in progress
\* is about to write.
Alone == \A c, d \in Callers : spc[c] # "idle" /\ spc[d] # "idle" => c = d
StreamHeld ==
    /\ (\A c \in Callers : spc[c] \notin {"start", "stop"}) =>
         (regs[Streaming] = 1 <=> stream_status)
    /\ \A c \in Callers : /\ spc[c] = "start" => stream_status
                          /\ spc[c] = "stop" => ~stream_status

\* A stop in progress sends the table the registers hold.
TableHeld ==
    \A c \in Callers : spc[c] \in {"stop", "resend"} => regs[Reg("table")] \in {mode, Unknown}

Inv ==
    /\ TypeOK
    /\ Shut({"wb_fails", "fmt_after_wb"}) => WbHeld
    /\ Shut({"wb_fails", "read_fails", "stream_fails", "fmt_after_wb", "stop_after_mode"}) => Held
    /\ Shut({"fmt_after_fps", "mode_after_fps"}) => FpsHeld
    /\ Shut({"streams_overlap"}) => Alone
    /\ Shut({"stop_after_mode"}) => TableHeld
    /\ Shut({"stream_fails", "fmt_in_stream", "streams_overlap"}) => StreamHeld
-----------------------------------------------------------------------------
(***************************************************************************)
(* Names and values of registers, and what writing them does.              *)
(***************************************************************************)
LEMMA NamesAre ==
    /\ \A k \in {"stream", "table", "fps", "conv", "lcg", "vs"} : Reg(k) \in Names
    /\ \A c \in Channels : Wb(c) \in Names /\ Blc(c) \in Names
    /\ \A n \in Names : \/ \E k \in {"stream", "table", "fps", "conv", "lcg", "vs"} : n = Reg(k)
                        \/ \E c \in Channels : n = Wb(c) \/ n = Blc(c)
BY DEF Names, Reg, Wb, Blc

LEMMA NamesApart ==
    /\ \A k, l \in {"stream", "table", "fps", "conv", "lcg", "vs"} : Reg(k) = Reg(l) => k = l
    /\ \A k \in {"stream", "table", "fps", "conv", "lcg", "vs"}, c \in Channels :
         Reg(k) # Wb(c) /\ Reg(k) # Blc(c)
    /\ \A c, d \in Channels : /\ Wb(c) # Blc(d)
                              /\ Wb(c) = Wb(d) => c = d
                              /\ Blc(c) = Blc(d) => c = d
    /\ \A c \in Channels : Wb(c)[1] = "wb" /\ Wb(c)[2] = c /\ Blc(c)[1] = "blc" /\ Blc(c)[2] = c
    /\ \A k \in {"stream", "table", "fps", "conv", "lcg", "vs"} :
         Reg(k)[1] # "wb" /\ Reg(k)[1] # "blc"
BY DEF Reg, Wb, Blc

LEMMA ValuesAre ==
    /\ Unknown \in Values /\ 0 \in Values /\ 1 \in Values
    /\ Modes \subseteq Values /\ Gains \subseteq Values /\ WbGains \subseteq Values
    /\ MinFps .. MaxFps \subseteq Values
    /\ \A g \in WbGains \cup {0}, l \in Levels \cup {0} : Offset(g, l) \in Values
BY DEF Values

LEMMA OverIs ==
    ASSUME NEW f \in [Names -> Values], NEW ws, \A n \in DOMAIN ws : ws[n] \in Values
    PROVE  /\ Over(ws, f) \in [Names -> Values]
           /\ \A n \in Names : Over(ws, f)[n] = IF n \in DOMAIN ws THEN ws[n] ELSE f[n]
BY DEF Over

LEMMA OutcomeIs ==
    ASSUME NEW ws, NEW ok \in BOOLEAN
    PROVE  /\ DOMAIN Outcome(ws, ok) = DOMAIN ws
           /\ \A n \in DOMAIN ws : Outcome(ws, ok)[n] = IF ok THEN ws[n] ELSE Unknown
BY DEF Outcome

\* A call writes the names of ws and no other, and grants what it wrote.
LEMMA WriteIs ==
    ASSUME TypeOK, NEW ws, NEW ok \in BOOLEAN, \A n \in DOMAIN ws : ws[n] \in Values
    PROVE  /\ After(ws, ok) \in [Names -> Values]
           /\ Over(Outcome(ws, ok), granted) \in [Names -> Values]
           /\ \A n \in Names :
                /\ After(ws, ok)[n] =
                     IF n \in DOMAIN ws THEN IF ok THEN ws[n] ELSE Unknown ELSE regs[n]
                /\ Over(Outcome(ws, ok), granted)[n] =
                     IF n \in DOMAIN ws THEN IF ok THEN ws[n] ELSE Unknown ELSE granted[n]
<1>1. /\ DOMAIN Outcome(ws, ok) = DOMAIN ws
      /\ \A n \in DOMAIN ws : Outcome(ws, ok)[n] = IF ok THEN ws[n] ELSE Unknown
  BY OutcomeIs
<1>2. \A n \in DOMAIN Outcome(ws, ok) : Outcome(ws, ok)[n] \in Values
  BY <1>1, ValuesAre
<1>3. regs \in [Names -> Values] /\ granted \in [Names -> Values]
  BY DEF TypeOK
<1> HIDE DEF Outcome
<1> QED
  BY <1>1, <1>2, <1>3, OverIs DEF After

LEMMA InitInv == Init => Inv
<1> SUFFICES ASSUME Init PROVE Inv
  OBVIOUS
<1> USE DEF Init
<1>1. /\ regs[Streaming] = 0 /\ \A n \in Names : n # Streaming => regs[n] = Unknown
      /\ regs \in [Names -> Values]
  BY NamesAre, ValuesAre DEF Streaming
<1>2. TypeOK
  <2>1. MaxFps \in MinFps .. MaxFps /\ 0 \in Modes
    BY SensorAssumption
  <2> QED
    BY <1>1, <2>1 DEF TypeOK
<1>3. WbHeld /\ Held /\ Alone /\ TableHeld /\ StreamHeld
  BY <1>1 DEF WbHeld, Held, Alone, TableHeld, StreamHeld
<1>4. FpsHeld
  BY <1>1, NamesAre, NamesApart DEF FpsHeld, Streaming
<1> QED
  BY <1>2, <1>3, <1>4 DEF Inv
-----------------------------------------------------------------------------
(***************************************************************************)
(* One lemma for each call.                                                *)
(***************************************************************************)
\* Calls that leave the stream and the table alone.
LEMMA StreamAside ==
    ASSUME UNCHANGED <<mode, power>>, regs'[Streaming] = regs[Streaming],
           regs'[Reg("table")] = regs[Reg("table")]
    PROVE  (Alone => Alone') /\ (StreamHeld => StreamHeld') /\ (TableHeld => TableHeld')
BY DEF Alone, StreamHeld, TableHeld, power

LEMMA SetSensorModeStep ==
    ASSUME Inv, NEW m \in Modes, SetSensorMode(m), UNCHANGED closed
    PROVE  Inv'
<1>1. /\ mode' = m /\ cur_fps' = MaxFps /\ UNCHANGED <<wb, blc, hcg, regs, granted>>
      /\ UNCHANGED <<stream_status, resume_status, suspended, spc>>
      /\ Shut({"mode_after_fps"}) => cur_fps = MaxFps
      /\ Shut({"stop_after_mode"}) => \A c \in Callers : spc[c] \notin {"stop", "resend"}
  BY DEF SetSensorMode, power, Shut, Free, Callers
<1>2. MaxFps \in MinFps .. MaxFps
  BY SensorAssumption
<1>3. TypeOK'
  BY <1>1, <1>2 DEF Inv, TypeOK
<1>4. (Alone => Alone') /\ (StreamHeld => StreamHeld')
  BY <1>1 DEF Alone, StreamHeld
<1>5. Shut({"stop_after_mode"}) => TableHeld'
  BY <1>1 DEF TableHeld
<1> QED
  BY <1>1, <1>3, <1>4, <1>5 DEF Inv, WbHeld, Held, FpsHeld, Shut

LEMMA SetLongGainStep ==
    ASSUME Inv, NEW g \in Gains, SetLongGain(g), UNCHANGED closed
    PROVE  Inv'
<1>1. TypeOK'
  BY DEF SetLongGain, Inv, TypeOK, power
<1>2. (Alone => Alone') /\ (StreamHeld => StreamHeld') /\ (TableHeld => TableHeld')
  BY StreamAside DEF SetLongGain
<1> QED
  BY <1>1, <1>2 DEF SetLongGain, Inv, WbHeld, Held, FpsHeld, Shut

LEMMA ClampIs == ASSUME NEW f \in Fps PROVE Clamp(f) \in MinFps .. MaxFps
BY SensorAssumption DEF Clamp

LEMMA SetFpsStep ==
    ASSUME Inv, NEW f \in Fps, NEW ok \in BOOLEAN, SetFps(f, ok), UNCHANGED closed
    PROVE  Inv'
<1> DEFINE ws == [n \in {Reg("fps")} |-> Clamp(f)]
<1>1. \A n \in DOMAIN ws : ws[n] \in Values
  BY ClampIs, ValuesAre
<1>2. regs' = After(ws, ok) /\ granted' = Over(Outcome(ws, ok), granted) /\ cur_fps' = Clamp(f)
      /\ UNCHANGED <<mode, wb, blc, hcg, power>>
  BY DEF SetFps, Write, Grant
<1>3. /\ DOMAIN ws = {Reg("fps")} /\ ws[Reg("fps")] = Clamp(f)
  OBVIOUS
<1> HIDE DEF ws
<1>4. /\ regs' \in [Names -> Values] /\ granted' \in [Names -> Values]
      /\ \A n \in Names : n # Reg("fps") => regs'[n] = regs[n] /\ granted'[n] = granted[n]
      /\ regs'[Reg("fps")] = (IF ok THEN Clamp(f) ELSE Unknown)
      /\ granted'[Reg("fps")] = regs'[Reg("fps")]
  BY <1>1, <1>2, <1>3, WriteIs, NamesAre DEF Inv
<1>5. /\ regs'[Streaming] = regs[Streaming] /\ regs'[Reg("table")] = regs[Reg("table")]
      /\ \A c \in Channels : /\ regs'[Wb(c)] = regs[Wb(c)]
                             /\ granted'[Blc(c)] = granted[Blc(c)]
  BY <1>4, NamesAre, NamesApart DEF Streaming
<1>6. TypeOK'
  BY <1>2, <1>4, <1>5, ClampIs DEF Inv, TypeOK, power
<1>7. Held => Held'
  BY <1>4 DEF Held
<1>8. FpsHeld'
  BY <1>2, <1>4 DEF FpsHeld
<1>9. (Alone => Alone') /\ (StreamHeld => StreamHeld') /\ (TableHeld => TableHeld')
  BY <1>2, <1>5, StreamAside
<1> QED
  BY <1>2, <1>5, <1>6, <1>7, <1>8, <1>9 DEF Inv, WbHeld, Shut

LEMMA SetBlcStep ==
    ASSUME Inv, NEW l \in Levels, NEW ok \in BOOLEAN, SetBlc(l, ok), UNCHANGED closed
    PROVE  Inv'
<1> DEFINE ws == Offsets(wb, l)
<1>1. /\ \A c \in Channels : Blc(c) \in DOMAIN ws /\ ws[Blc(c)] = Offset(wb[c], l)
      /\ \A n \in DOMAIN ws : \E c \in Channels : n = Blc(c)
  BY DEF Offsets, Blc
<1>2. \A n \in DOMAIN ws : ws[n] \in Values
  BY <1>1, ValuesAre DEF Inv, TypeOK
<1>3. regs' = After(ws, ok) /\ granted' = Over(Outcome(ws, ok), granted) /\ blc' = l
      /\ UNCHANGED <<mode, cur_fps, wb, hcg, power>>
  BY DEF SetBlc, Write, Grant
<1> HIDE DEF ws
<1>4. /\ regs' \in [Names -> Values] /\ granted' \in [Names -> Values]
      /\ \A n \in Names :
           IF n \in DOMAIN ws
             THEN regs'[n] = granted'[n] /\ granted'[n] = (IF ok THEN ws[n] ELSE Unknown)
             ELSE regs'[n] = regs[n] /\ granted'[n] = granted[n]
  BY <1>2, <1>3, WriteIs DEF Inv
<1>5. /\ regs'[Streaming] = regs[Streaming] /\ regs'[Reg("table")] = regs[Reg("table")]
      /\ regs'[Reg("fps")] = regs[Reg("fps")] /\ granted'[Reg("fps")] = granted[Reg("fps")]
      /\ \A c \in Channels :
           /\ regs'[Wb(c)] = regs[Wb(c)]
           /\ granted'[Blc(c)] # Unknown => granted'[Blc(c)] = Offset(wb[c], l)
  BY <1>1, <1>4, NamesAre, NamesApart DEF Streaming
<1>6. TypeOK'
  BY <1>3, <1>4, <1>5 DEF Inv, TypeOK, power
<1>7. Held => Held'
  BY <1>4 DEF Held
<1>8. (Alone => Alone') /\ (StreamHeld => StreamHeld') /\ (TableHeld => TableHeld')
  BY <1>3, <1>5, StreamAside
<1> QED
  BY <1>3, <1>5, <1>6, <1>7, <1>8 DEF Inv, WbHeld, FpsHeld, Shut

\* Gains: of the register they share, the field written, or all if it could
\* not be read.
LEMMA WriteGainStep ==
    ASSUME Inv, NEW ws, NEW ok \in BOOLEAN, NEW read \in BOOLEAN, WriteGain(ws, ok, read),
           DOMAIN ws \subseteq GainNames, \A n \in DOMAIN ws : ws[n] \in Values, UNCHANGED closed
    PROVE  Inv'
<1> DEFINE lost == [n \in GainNames |-> Unknown]
<1>1. /\ granted' = Over(Outcome(ws, ok), granted)
      /\ regs' = IF read THEN After(ws, ok) ELSE Over(Outcome(ws, ok), Over(lost, regs))
      /\ UNCHANGED <<cached, power>> /\ (~read => ~Shut({"read_fails"}))
  BY DEF WriteGain, Grant, Shut
<1>2. DOMAIN lost = GainNames /\ \A n \in DOMAIN lost : lost[n] \in Values
  BY ValuesAre
<1> HIDE DEF lost
<1>3. /\ DOMAIN Outcome(ws, ok) = DOMAIN ws
      /\ \A n \in DOMAIN Outcome(ws, ok) : Outcome(ws, ok)[n] \in Values
  BY OutcomeIs, ValuesAre
<1>4. granted' \in [Names -> Values] /\ \A n \in Names \ GainNames : granted'[n] = granted[n]
  BY <1>1, WriteIs DEF Inv
<1>5. regs' \in [Names -> Values] /\ \A n \in Names \ GainNames : regs'[n] = regs[n]
  <2>1. CASE read
    BY <1>1, <2>1, WriteIs DEF Inv
  <2>2. CASE ~read
    <3>1. /\ Over(lost, regs) \in [Names -> Values]
          /\ \A n \in Names \ GainNames : Over(lost, regs)[n] = regs[n]
      BY <1>2, OverIs DEF Inv, TypeOK
    <3> QED
      BY <1>1, <1>3, <2>2, <3>1, OverIs
  <2> QED
    BY <2>1, <2>2
<1>6. /\ Streaming \notin GainNames /\ Reg("fps") \notin GainNames /\ Reg("table") \notin GainNames
      /\ \A c \in Channels : Wb(c) \notin GainNames /\ Blc(c) \notin GainNames
  BY NamesApart DEF GainNames, Streaming
<1>7. /\ regs'[Streaming] = regs[Streaming] /\ regs'[Reg("table")] = regs[Reg("table")]
      /\ regs'[Reg("fps")] = regs[Reg("fps")] /\ granted'[Reg("fps")] = granted[Reg("fps")]
      /\ \A c \in Channels : regs'[Wb(c)] = regs[Wb(c)] /\ granted'[Blc(c)] = granted[Blc(c)]
  BY <1>4, <1>5, <1>6, NamesAre DEF Streaming
<1>8. TypeOK'
  BY <1>1, <1>4, <1>5, <1>7 DEF Inv, TypeOK, cached, power
<1>9. read /\ Held => Held'
  BY <1>1, WriteIs DEF Inv, Held
<1>10. (Alone => Alone') /\ (StreamHeld => StreamHeld') /\ (TableHeld => TableHeld')
  BY <1>1, <1>7, StreamAside DEF cached
<1> QED
  BY <1>1, <1>7, <1>8, <1>9, <1>10 DEF Inv, WbHeld, FpsHeld, Shut, cached

LEMMA SetGainStep ==
    ASSUME Inv, NEW g \in Gains, NEW ok \in BOOLEAN, NEW read \in BOOLEAN,
           SetGain(g, ok, read) \/ SetVsGain(g, ok, read), UNCHANGED closed
    PROVE  Inv'
<1>1. DOMAIN GainWrites(g) \subseteq GainNames /\ \A n \in DOMAIN GainWrites(g) :
        GainWrites(g)[n] \in Values
  BY ValuesAre DEF GainWrites, GainNames, Inv, TypeOK
<1> DEFINE ws == [n \in {Reg("vs")} |-> g]
<1>2. DOMAIN ws \subseteq GainNames /\ \A n \in DOMAIN ws : ws[n] \in Values
  BY ValuesAre DEF GainNames
<1>3. WriteGain(GainWrites(g), ok, read) \/ WriteGain(ws, ok, read)
  BY DEF SetGain, SetVsGain
<1> HIDE DEF ws
<1> QED
  BY <1>1, <1>2, <1>3, WriteGainStep

\* The table of the mode: it sets every name, and a failure grants none.
LEMMA SetFmtStep ==
    ASSUME Inv, NEW ok \in BOOLEAN, SetFmt(ok), UNCHANGED closed
    PROVE  Inv'
<1>1. /\ DOMAIN Table = Names /\ Table[Streaming] = 0 /\ Table[Reg("fps")] = MaxFps
      /\ \A n \in Names : Table[n] \in Values
  <2>1. mode \in Values /\ MaxFps \in Values /\ 0 \in Values
    BY ValuesAre, SensorAssumption DEF Inv, TypeOK
  <2> QED
    BY <2>1, NamesAre, NamesApart DEF Table, Streaming
<1>2. PICK s \in (IF ok THEN {0} ELSE {0, regs[Streaming]}) :
         regs' = [After(Table, ok) EXCEPT ![Streaming] = s]
  BY DEF SetFmt
<1>3. granted' = Over(Outcome(Table, ok), granted) /\ UNCHANGED <<cached, power>>
  BY DEF SetFmt, Grant
<1> HIDE DEF Table
<1>4. /\ After(Table, ok) \in [Names -> Values] /\ granted' \in [Names -> Values]
      /\ \A n \in Names : /\ After(Table, ok)[n] = IF ok THEN Table[n] ELSE Unknown
                          /\ granted'[n] = IF ok THEN Table[n] ELSE Unknown
  BY <1>1, <1>3, WriteIs DEF Inv
<1>5. Streaming \in Names /\ s \in {0, 1} /\ s \in Values /\ (ok => s = 0) /\ s \in {0, regs[Streaming]}
  BY NamesAre, ValuesAre DEF Streaming, Inv, TypeOK
<1>6. /\ regs' \in [Names -> Values] /\ regs'[Streaming] = s
      /\ \A n \in Names : n # Streaming => regs'[n] = IF ok THEN Table[n] ELSE Unknown
  BY <1>2, <1>4, <1>5
<1>7. TypeOK'
  BY <1>3, <1>4, <1>5, <1>6 DEF Inv, TypeOK, cached, power
<1>8. Shut({"fmt_after_wb"}) => WbHeld'
  BY <1>3 DEF SetFmt, Shut, WbHeld, cached
<1>9. Held'
  BY <1>1, <1>4, <1>5, <1>6 DEF Held
<1>10. Shut({"fmt_after_fps"}) => FpsHeld'
  <2>1. Reg("fps") \in Names /\ Reg("fps") # Streaming
    BY NamesAre, NamesApart DEF Streaming
  <2>2. Shut({"fmt_after_fps"}) => cur_fps' = MaxFps
    BY <1>3 DEF SetFmt, Shut, cached
  <2> QED
    BY <1>1, <1>4, <1>6, <2>1, <2>2 DEF FpsHeld
<1>11. Shut({"fmt_in_stream"}) /\ StreamHeld => StreamHeld'
  BY <1>3, <1>5, <1>6 DEF SetFmt, Shut, StreamHeld, power
<1>12. (Alone => Alone') /\ TableHeld'
  <2>1. Reg("table") \in Names /\ Reg("table") # Streaming /\ Table[Reg("table")] = mode
    BY NamesAre, NamesApart DEF Streaming, Table
  <2> QED
    BY <1>3, <1>6, <2>1 DEF Alone, TableHeld, power, cached
<1> QED
  BY <1>7, <1>8, <1>9, <1>10, <1>11, <1>12 DEF Inv, Shut

\* What S_WB does to the registers and grants, name by name.
LEMMA SetWbIs ==
    ASSUME TypeOK, NEW w \in [Channels -> WbGains], NEW gainsOk \in BOOLEAN, NEW ok \in BOOLEAN,
           SetWb(w, gainsOk, ok)
    PROVE  /\ regs' \in [Names -> Values] /\ granted' \in [Names -> Values]
           /\ \A k \in {"stream", "table", "fps", "conv", "lcg", "vs"} :
                regs'[Reg(k)] = regs[Reg(k)] /\ granted'[Reg(k)] = granted[Reg(k)]
           /\ \A c \in Channels :
                /\ regs'[Wb(c)] = IF w[c] = wb[c] THEN regs[Wb(c)]
                                  ELSE IF gainsOk THEN w[c] ELSE Unknown
                /\ regs'[Blc(c)] = IF w = wb THEN regs[Blc(c)]
                                   ELSE IF ok THEN Offset(w[c], blc) ELSE Unknown
                /\ granted'[Wb(c)] = IF ok THEN w[c] ELSE Unknown
                /\ granted'[Blc(c)] = IF ok /\ granted[Blc(c)] # Unknown THEN Offset(w[c], blc)
                                      ELSE Unknown
<1> DEFINE gs == WbWrites(w)
           os == BlcWrites(w)
<1>1. /\ regs' = Over(Outcome(gs, gainsOk), After(os, ok))
      /\ granted' = [n \in Names |->
           CASE n[1] = "wb"  -> IF ok THEN w[n[2]] ELSE Unknown
             [] n[1] = "blc" -> IF ok /\ granted[n] # Unknown THEN Offset(w[n[2]], blc) ELSE Unknown
             [] OTHER        -> granted[n]]
  BY DEF SetWb
<1>2. /\ \A c \in Channels : w[c] \in WbGains /\ w[c] \in Values /\ Offset(w[c], blc) \in Values
      /\ regs \in [Names -> Values] /\ granted \in [Names -> Values]
  BY ValuesAre DEF TypeOK
<1>3. /\ \A c \in Channels : w[c] # wb[c] => Wb(c) \in DOMAIN gs /\ gs[Wb(c)] = w[c]
      /\ \A n \in DOMAIN gs : \E c \in Channels : w[c] # wb[c] /\ n = Wb(c)
  BY DEF WbWrites, Wb
<1>4. /\ w # wb => /\ \A c \in Channels : Blc(c) \in DOMAIN os /\ os[Blc(c)] = Offset(w[c], blc)
                   /\ \A n \in DOMAIN os : \E c \in Channels : n = Blc(c)
      /\ w = wb => DOMAIN os = {}
  BY DEF BlcWrites, Offsets, Blc
<1> HIDE DEF gs, os
<1>5. \A n \in DOMAIN os : os[n] \in Values
  BY <1>2, <1>4
<1>6. /\ After(os, ok) \in [Names -> Values]
      /\ \A n \in Names : After(os, ok)[n] =
           IF n \in DOMAIN os THEN IF ok THEN os[n] ELSE Unknown ELSE regs[n]
  BY <1>5, WriteIs
<1>7. /\ DOMAIN Outcome(gs, gainsOk) = DOMAIN gs
      /\ \A n \in DOMAIN gs : Outcome(gs, gainsOk)[n] = IF gainsOk THEN gs[n] ELSE Unknown
  BY OutcomeIs
<1>8. \A n \in DOMAIN Outcome(gs, gainsOk) : Outcome(gs, gainsOk)[n] \in Values
  BY <1>2, <1>3, <1>7, ValuesAre
<1>9. /\ regs' \in [Names -> Values]
      /\ \A n \in Names : regs'[n] =
           IF n \in DOMAIN gs THEN IF gainsOk THEN gs[n] ELSE Unknown ELSE After(os, ok)[n]
  BY <1>1, <1>6, <1>7, <1>8, OverIs
<1>10. \A k \in {"stream", "table", "fps", "conv", "lcg", "vs"} : regs'[Reg(k)] = regs[Reg(k)]
  <2> TAKE k \in {"stream", "table", "fps", "conv", "lcg", "vs"}
  <2>1. Reg(k) \in Names /\ Reg(k) \notin DOMAIN gs /\ Reg(k) \notin DOMAIN os
    BY <1>3, <1>4, NamesAre, NamesApart
  <2> QED
    BY <1>6, <1>9, <2>1
<1>11. ASSUME NEW c \in Channels
       PROVE  /\ regs'[Wb(c)] = IF w[c] = wb[c] THEN regs[Wb(c)]
                                ELSE IF gainsOk THEN w[c] ELSE Unknown
              /\ regs'[Blc(c)] = IF w = wb THEN regs[Blc(c)]
                                 ELSE IF ok THEN Offset(w[c], blc) ELSE Unknown
  <2>1. /\ Wb(c) \in Names /\ Wb(c) \notin DOMAIN os
        /\ Wb(c) \in DOMAIN gs <=> w[c] # wb[c]
    BY <1>3, <1>4, NamesAre, NamesApart
  <2>2. /\ Blc(c) \in Names /\ Blc(c) \notin DOMAIN gs
        /\ Blc(c) \in DOMAIN os <=> w # wb
    BY <1>3, <1>4, NamesAre, NamesApart
  <2> QED
    BY <1>3, <1>4, <1>6, <1>9, <2>1, <2>2
<1>12. /\ \A k \in {"stream", "table", "fps", "conv", "lcg", "vs"} : granted'[Reg(k)] = granted[Reg(k)]
       /\ \A c \in Channels :
            /\ granted'[Wb(c)] = IF ok THEN w[c] ELSE Unknown
            /\ granted'[Blc(c)] = IF ok /\ granted[Blc(c)] # Unknown THEN Offset(w[c], blc)
                                  ELSE Unknown
  BY <1>1, NamesAre, NamesApart
<1>13. granted' \in [Names -> Values]
  <2>1. \A n \in Names : granted'[n] \in Values
    BY <1>2, <1>12, NamesAre, ValuesAre
  <2> QED
    BY <1>1, <2>1
<1> QED
  BY <1>9, <1>10, <1>11, <1>12, <1>13

LEMMA SetWbStep ==
    ASSUME Inv, NEW w \in [Channels -> WbGains], NEW gainsOk \in BOOLEAN, NEW ok \in BOOLEAN,
           SetWb(w, gainsOk, ok), UNCHANGED closed
    PROVE  Inv'
<1>0. TypeOK /\ wb \in [Channels -> WbGains \cup {0}] /\ wb' = w
      /\ UNCHANGED <<mode, cur_fps, blc, hcg, power>> /\ (Shut({"wb_fails"}) => gainsOk)
  BY DEF Inv, TypeOK, SetWb, Shut
<1>1. /\ regs' \in [Names -> Values] /\ granted' \in [Names -> Values]
      /\ \A k \in {"stream", "table", "fps", "conv", "lcg", "vs"} :
           regs'[Reg(k)] = regs[Reg(k)] /\ granted'[Reg(k)] = granted[Reg(k)]
      /\ \A c \in Channels :
           /\ regs'[Wb(c)] = IF w[c] = wb[c] THEN regs[Wb(c)]
                             ELSE IF gainsOk THEN w[c] ELSE Unknown
           /\ regs'[Blc(c)] = IF w = wb THEN regs[Blc(c)]
                              ELSE IF ok THEN Offset(w[c], blc) ELSE Unknown
           /\ granted'[Wb(c)] = IF ok THEN w[c] ELSE Unknown
           /\ granted'[Blc(c)] = IF ok /\ granted[Blc(c)] # Unknown THEN Offset(w[c], blc)
                                 ELSE Unknown
  BY <1>0, SetWbIs
<1>2. \A c \in Channels : w[c] \in WbGains /\ w[c] # 0
  BY SensorAssumption
<1>3. TypeOK'
  BY <1>0, <1>1, <1>2 DEF TypeOK, power, Streaming
<1>4. FpsHeld => FpsHeld'
  BY <1>0, <1>1 DEF FpsHeld
<1>5. (Alone => Alone') /\ (StreamHeld => StreamHeld') /\ (TableHeld => TableHeld')
  BY <1>0, <1>1, StreamAside DEF Streaming
<1>6. Shut({"wb_fails"}) /\ WbHeld => WbHeld'
  BY <1>0, <1>1, <1>2 DEF WbHeld
<1>7. Shut({"wb_fails"}) /\ WbHeld /\ Held => Held'
  <2> SUFFICES ASSUME gainsOk, WbHeld, Held, NEW n \in Names, granted'[n] # Unknown
               PROVE  regs'[n] = granted'[n]
    BY <1>0 DEF Held
  <2>1. ASSUME NEW k \in {"stream", "table", "fps", "conv", "lcg", "vs"}, n = Reg(k)
        PROVE  regs'[n] = granted'[n]
    BY <1>1, <2>1 DEF Held
  <2>2. ASSUME NEW c \in Channels, n = Wb(c) PROVE regs'[n] = granted'[n]
    BY <1>1, <1>2, <2>2 DEF WbHeld
  <2>3. ASSUME NEW c \in Channels, n = Blc(c) PROVE regs'[n] = granted'[n]
    <3>1. ok /\ granted[n] # Unknown /\ granted'[n] = Offset(w[c], blc)
      BY <1>1, <2>3
    <3>2. CASE w # wb
      BY <1>1, <2>3, <3>1, <3>2
    <3>3. CASE w = wb
      <4>1. regs'[n] = regs[n] /\ wb[c] # 0
        BY <1>1, <1>2, <2>3, <3>3
      <4> QED
        BY <2>3, <3>1, <3>3, <4>1 DEF WbHeld, Held
    <3> QED
      BY <3>2, <3>3
  <2> QED
    BY <2>1, <2>2, <2>3, NamesAre
<1> QED
  BY <1>3, <1>4, <1>5, <1>6, <1>7 DEF Inv, Shut

\* Registers and grants of a start or stop, and of the table sent again.
LEMMA SwitchedIs ==
    ASSUME TypeOK, NEW on \in BOOLEAN, NEW fails \in BOOLEAN
    PROVE  /\ Switched(on, fails) \in [Names -> Values] /\ Promised(on) \in [Names -> Values]
           /\ Switched(on, fails)[Streaming] = IF fails THEN regs[Streaming] ELSE Bit(on)
           /\ Promised(on)[Streaming] = Bit(on) /\ Bit(on) \in {0, 1}
           /\ \A n \in Names : n # Streaming =>
                Switched(on, fails)[n] = regs[n] /\ Promised(on)[n] = granted[n]
<1>1. /\ regs \in [Names -> Values] /\ granted \in [Names -> Values] /\ Streaming \in Names
      /\ Bit(on) \in {0, 1} /\ Bit(on) \in Values
  BY NamesAre, ValuesAre DEF TypeOK, Streaming, Bit
<1> QED
  BY <1>1 DEF Switched, Promised

LEMMA ResentIs ==
    ASSUME NEW r \in [Names -> Values], NEW g \in [Names -> Values], NEW ok \in BOOLEAN
    PROVE  /\ Resent(r, ok) \in [Names -> Values] /\ Kept(g, ok) \in [Names -> Values]
           /\ Resent(r, ok)[Reg("table")] =
                IF ok /\ r[Reg("table")] = mode THEN mode ELSE Unknown
           /\ \A n \in Names : n # Reg("table") => Resent(r, ok)[n] = r[n]
           /\ \A n \in Names : Kept(g, ok)[n] =
                IF ok \/ n \notin {Streaming, Reg("table")} THEN g[n] ELSE Unknown
<1>1. /\ Streaming \in Names /\ Reg("table") \in Names /\ Streaming # Reg("table")
      /\ Unknown \in Values
  BY NamesAre, NamesApart, ValuesAre DEF Streaming
<1>2. r[Reg("table")] \in Values
  BY <1>1
<1> QED
  BY <1>1, <1>2 DEF Resent, Kept

\* What s_stream does leaves the other settings alone.
LEMMA OthersAside ==
    ASSUME UNCHANGED cached, \A n \in Names : n \notin {Streaming, Reg("table")} =>
                               regs'[n] = regs[n] /\ granted'[n] = granted[n]
    PROVE  (WbHeld => WbHeld') /\ (FpsHeld => FpsHeld')
<1>1. /\ Reg("fps") \in Names /\ Reg("fps") \notin {Streaming, Reg("table")}
      /\ \A c \in Channels : /\ Wb(c) \in Names /\ Wb(c) \notin {Streaming, Reg("table")}
                             /\ Blc(c) \in Names /\ Blc(c) \notin {Streaming, Reg("table")}
  BY NamesAre, NamesApart DEF Streaming
<1> QED
  BY <1>1 DEF WbHeld, FpsHeld, cached

LEMMA SetStreamStep ==
    ASSUME Inv, NEW c \in Callers, NEW on \in BOOLEAN, SetStream(c, on), UNCHANGED closed
    PROVE  Inv'
<1>1. /\ spc[c] = "idle" /\ ~suspended /\ stream_status' = on
      /\ spc' = [spc EXCEPT ![c] = IF on THEN "start" ELSE "stop"]
      /\ Shut({"streams_overlap"}) => \A d \in Callers : spc[d] = "idle"
      /\ Shut({"stop_after_mode"}) /\ ~on => regs[Reg("table")] \in {mode, Unknown}
      /\ UNCHANGED <<cached, resume_status, suspended, regs, granted>>
  BY DEF SetStream, StopAllowed, Shut
<1>2. spc \in [Callers -> {"idle", "start", "stop", "resend"}]
  BY DEF Inv, TypeOK
<1>3. /\ spc' \in [Callers -> {"idle", "start", "stop", "resend"}]
      /\ spc'[c] = (IF on THEN "start" ELSE "stop") /\ \A d \in Callers : d # c => spc'[d] = spc[d]
  BY <1>1, <1>2
<1>4. TypeOK'
  BY <1>1, <1>3 DEF Inv, TypeOK, cached
<1>5. Shut({"streams_overlap"}) => Alone' /\ StreamHeld'
  BY <1>1, <1>3 DEF Alone, StreamHeld
<1>6. Shut({"stop_after_mode"}) /\ TableHeld => TableHeld'
  BY <1>1, <1>3 DEF TableHeld, cached
<1> QED
  BY <1>1, <1>4, <1>5, <1>6 DEF Inv, WbHeld, Held, FpsHeld, Shut, cached

LEMMA SwitchStreamStep ==
    ASSUME Inv, NEW c \in Callers, NEW fails \in BOOLEAN, SwitchStream(c, fails), UNCHANGED closed
    PROVE  Inv'
<1>0. PICK on \in BOOLEAN : on = (spc[c] = "start")
  OBVIOUS
<1>1. /\ spc[c] = (IF on THEN "start" ELSE "stop")
      /\ regs' = Switched(on, fails) /\ granted' = Promised(on)
      /\ spc' = [spc EXCEPT ![c] = IF on THEN "idle" ELSE "resend"]
      /\ Shut({"stream_fails"}) => ~fails
      /\ UNCHANGED <<cached, stream_status, resume_status, suspended>>
  BY <1>0 DEF SwitchStream, Shut
<1>2. /\ regs' \in [Names -> Values] /\ granted' \in [Names -> Values] /\ Bit(on) \in {0, 1}
      /\ regs'[Streaming] = (IF fails THEN regs[Streaming] ELSE Bit(on))
      /\ granted'[Streaming] = Bit(on)
      /\ \A n \in Names : n # Streaming => regs'[n] = regs[n] /\ granted'[n] = granted[n]
  BY <1>1, SwitchedIs DEF Inv
<1>3. Reg("table") \in Names /\ Reg("table") # Streaming /\ regs[Streaming] \in {0, 1}
  BY NamesAre, NamesApart DEF Streaming, Inv, TypeOK
<1>4. /\ spc \in [Callers -> {"idle", "start", "stop", "resend"}]
      /\ spc' \in [Callers -> {"idle", "start", "stop", "resend"}]
      /\ spc'[c] = (IF on THEN "idle" ELSE "resend") /\ \A d \in Callers : d # c => spc'[d] = spc[d]
  BY <1>1 DEF Inv, TypeOK
<1>5. TypeOK'
  <2>1. ~suspended
    BY <1>1 DEF Inv, TypeOK
  <2> QED
    BY <1>1, <1>2, <1>3, <1>4, <2>1 DEF Inv, TypeOK, cached
<1>6. (WbHeld => WbHeld') /\ (FpsHeld => FpsHeld')
  BY <1>1, <1>2, OthersAside
<1>7. Shut({"stream_fails"}) /\ Held => Held'
  BY <1>1, <1>2 DEF Held
<1>8. Alone => Alone'
  BY <1>1, <1>4 DEF Alone
<1>9. TableHeld => TableHeld'
  BY <1>1, <1>2, <1>3, <1>4 DEF TableHeld, cached
<1>10. Shut({"stream_fails"}) /\ Alone /\ StreamHeld => StreamHeld'
  <2> SUFFICES ASSUME ~fails, Alone, StreamHeld PROVE StreamHeld'
    BY <1>1
  <2>1. \A d \in Callers : spc'[d] \notin {"start", "stop"}
    BY <1>1, <1>4 DEF Alone
  <2>2. stream_status' <=> on
    BY <1>1 DEF StreamHeld, Inv, TypeOK
  <2>3. regs'[Streaming] = 1 <=> on
    BY <1>2 DEF Bit
  <2> QED
    BY <2>1, <2>2, <2>3 DEF StreamHeld
<1> QED
  BY <1>5, <1>6, <1>7, <1>8, <1>9, <1>10 DEF Inv, Shut

LEMMA ResendTableStep ==
    ASSUME Inv, NEW c \in Callers, NEW ok \in BOOLEAN, ResendTable(c, ok), UNCHANGED closed
    PROVE  Inv'
<1>1. /\ spc[c] = "resend" /\ spc' = [spc EXCEPT ![c] = "idle"]
      /\ regs' = Resent(regs, ok) /\ granted' = Kept(granted, ok)
      /\ UNCHANGED <<cached, stream_status, resume_status, suspended>>
  BY DEF ResendTable
<1>2. /\ regs' \in [Names -> Values] /\ granted' \in [Names -> Values]
      /\ regs'[Reg("table")] = (IF ok /\ regs[Reg("table")] = mode THEN mode ELSE Unknown)
      /\ \A n \in Names : n # Reg("table") => regs'[n] = regs[n]
      /\ \A n \in Names : granted'[n] =
           IF ok \/ n \notin {Streaming, Reg("table")} THEN granted[n] ELSE Unknown
  BY <1>1, ResentIs DEF Inv, TypeOK
<1>3. /\ Reg("table") \in Names /\ Streaming \in Names /\ Reg("table") # Streaming
      /\ regs'[Streaming] = regs[Streaming]
  BY <1>2, NamesAre, NamesApart DEF Streaming
<1>4. /\ spc \in [Callers -> {"idle", "start", "stop", "resend"}]
      /\ spc' \in [Callers -> {"idle", "start", "stop", "resend"}]
      /\ spc'[c] = "idle" /\ \A d \in Callers : d # c => spc'[d] = spc[d]
  BY <1>1 DEF Inv, TypeOK
<1>5. TypeOK'
  <2>1. ~suspended
    BY <1>1 DEF Inv, TypeOK
  <2> QED
    BY <1>1, <1>2, <1>3, <1>4, <2>1 DEF Inv, TypeOK, cached
<1>6. (WbHeld => WbHeld') /\ (FpsHeld => FpsHeld')
  BY <1>1, <1>2, OthersAside
<1>7. TableHeld /\ Held => Held'
  <2> SUFFICES ASSUME TableHeld, Held, NEW n \in Names, granted'[n] # Unknown
               PROVE  regs'[n] = granted'[n]
    BY DEF Held
  <2>1. granted'[n] = granted[n] /\ regs[n] = granted[n]
    BY <1>2 DEF Held
  <2>2. CASE n = Reg("table")
    <3>1. ok /\ regs[Reg("table")] = mode
      BY <1>1, <1>2, <2>1, <2>2 DEF TableHeld
    <3> QED
      BY <1>2, <2>1, <2>2, <3>1
  <2>3. CASE n # Reg("table")
    BY <1>2, <2>1, <2>3
  <2> QED
    BY <2>2, <2>3
<1>8. (Alone => Alone') /\ (StreamHeld => StreamHeld')
  BY <1>1, <1>3, <1>4 DEF Alone, StreamHeld
<1>9. TableHeld'
  BY <1>1, <1>2 DEF TableHeld, cached
<1> QED
  BY <1>5, <1>6, <1>7, <1>8, <1>9 DEF Inv, Shut

\* Suspend and resume: nobody else is starting or stopping the sensor.
LEMMA WriteStreamStep ==
    ASSUME Inv, NEW on \in BOOLEAN, NEW fails \in BOOLEAN, NEW ok \in BOOLEAN,
           WriteStream(on, fails, ok), UNCHANGED <<closed, cached, spc>>,
           \A c \in Callers : spc[c] = "idle",
           resume_status' \in BOOLEAN, suspended' \in BOOLEAN, suspended' => ~on
    PROVE  Inv'
<1>1. /\ stream_status' = on
      /\ regs' = (IF on THEN Switched(on, fails) ELSE Resent(Switched(on, fails), ok))
      /\ granted' = (IF on THEN Promised(on) ELSE Kept(Promised(on), ok))
      /\ Shut({"stream_fails"}) => ~fails
      /\ ~on /\ Shut({"stop_after_mode"}) => regs[Reg("table")] \in {mode, Unknown}
  BY DEF WriteStream, StopAllowed, Shut
<1>2. /\ Switched(on, fails) \in [Names -> Values] /\ Promised(on) \in [Names -> Values]
      /\ Switched(on, fails)[Streaming] = (IF fails THEN regs[Streaming] ELSE Bit(on))
      /\ Promised(on)[Streaming] = Bit(on) /\ Bit(on) \in {0, 1}
      /\ \A n \in Names : n # Streaming =>
           Switched(on, fails)[n] = regs[n] /\ Promised(on)[n] = granted[n]
  BY SwitchedIs DEF Inv
<1>3. /\ Streaming \in Names /\ Reg("table") \in Names /\ Streaming # Reg("table")
      /\ regs[Streaming] \in {0, 1}
  BY NamesAre, NamesApart DEF Inv, TypeOK, Streaming
<1> DEFINE kept == on \/ (ok /\ regs[Reg("table")] = mode)
<1> HIDE DEF kept
<1>4. /\ regs' \in [Names -> Values] /\ granted' \in [Names -> Values]
      /\ regs'[Streaming] = (IF fails THEN regs[Streaming] ELSE Bit(on))
      /\ regs'[Reg("table")] = (IF kept THEN regs[Reg("table")] ELSE Unknown)
      /\ granted'[Streaming] = (IF on \/ ok THEN Bit(on) ELSE Unknown)
      /\ granted'[Reg("table")] = (IF on \/ ok THEN granted[Reg("table")] ELSE Unknown)
      /\ \A n \in Names : n \notin {Streaming, Reg("table")} =>
           regs'[n] = regs[n] /\ granted'[n] = granted[n]
  <2>1. CASE on
    BY <1>1, <1>2, <1>3, <2>1 DEF kept
  <2>2. CASE ~on
    <3> DEFINE r == Switched(on, fails)
               g == Promised(on)
    <3>1. r \in [Names -> Values] /\ g \in [Names -> Values]
      BY <1>2
    <3>2. regs' = Resent(r, ok) /\ granted' = Kept(g, ok)
      BY <1>1, <2>2
    <3>3. /\ r[Streaming] = (IF fails THEN regs[Streaming] ELSE Bit(on)) /\ g[Streaming] = Bit(on)
          /\ \A n \in Names : n # Streaming => r[n] = regs[n] /\ g[n] = granted[n]
      BY <1>2
    <3> HIDE DEF r, g
    <3>4. /\ Resent(r, ok) \in [Names -> Values] /\ Kept(g, ok) \in [Names -> Values]
          /\ Resent(r, ok)[Reg("table")] =
               IF ok /\ r[Reg("table")] = mode THEN mode ELSE Unknown
          /\ \A n \in Names : n # Reg("table") => Resent(r, ok)[n] = r[n]
          /\ \A n \in Names : Kept(g, ok)[n] =
               IF ok \/ n \notin {Streaming, Reg("table")} THEN g[n] ELSE Unknown
      BY <3>1, ResentIs
    <3> QED
      BY <1>3, <2>2, <3>2, <3>3, <3>4 DEF kept
  <2> QED
    BY <2>1, <2>2
<1>5. TypeOK'
  BY <1>1, <1>2, <1>3, <1>4 DEF Inv, TypeOK, cached
<1>6. (WbHeld => WbHeld') /\ (FpsHeld => FpsHeld')
  BY <1>4, OthersAside
<1>7. Alone' /\ TableHeld'
  BY DEF Alone, TableHeld
<1>8. Shut({"stream_fails"}) => StreamHeld'
  BY <1>1, <1>4 DEF StreamHeld, Bit
<1>9. Shut({"stream_fails"}) /\ Shut({"stop_after_mode"}) /\ Held => Held'
  <2> SUFFICES ASSUME Shut({"stream_fails"}), Shut({"stop_after_mode"}), Held
               PROVE  granted'[Reg("table")] # Unknown => regs'[Reg("table")] = granted'[Reg("table")]
    BY <1>1, <1>4 DEF Held
  <2> SUFFICES ASSUME on \/ ok, granted[Reg("table")] # Unknown
               PROVE  kept
    BY <1>3, <1>4 DEF Held
  <2>1. regs[Reg("table")] # Unknown
    BY <1>3 DEF Held
  <2> QED
    BY <1>1, <2>1 DEF kept
<1> QED
  BY <1>5, <1>6, <1>7, <1>8, <1>9 DEF Inv, Shut

LEMMA StepInv == Inv /\ [Next]_vars => Inv'
<1>1. ASSUME Inv, Call, UNCHANGED closed PROVE Inv'
  BY <1>1, SetSensorModeStep, SetLongGainStep, SetFmtStep, SetFpsStep, SetBlcStep, SetGainStep,
     SetWbStep, SetStreamStep, SwitchStreamStep, ResendTableStep DEF Call
<1>2. ASSUME Inv, UNCHANGED closed, NEW fails \in BOOLEAN, NEW ok \in BOOLEAN, Suspend(fails, ok)
      PROVE  Inv'
  <2>1. /\ stream_status \in BOOLEAN /\ suspended' = TRUE /\ resume_status' = stream_status
        /\ UNCHANGED <<cached, spc>> /\ \A c \in Callers : spc[c] = "idle"
    BY <1>2 DEF Suspend, Inv, TypeOK
  <2>2. CASE stream_status
    BY <1>2, <2>1, <2>2, WriteStreamStep DEF Suspend
  <2>3. CASE ~stream_status
    <3>1. UNCHANGED <<stream_status, regs, granted>>
      BY <1>2, <2>3 DEF Suspend
    <3> QED
      BY <1>2, <2>1, <2>3, <3>1
         DEF Inv, TypeOK, WbHeld, Held, FpsHeld, Alone, StreamHeld, TableHeld, Shut, cached
  <2> QED
    BY <2>2, <2>3
<1>3. ASSUME Inv, UNCHANGED closed, NEW fails \in BOOLEAN, NEW ok \in BOOLEAN, Resume(fails, ok)
      PROVE  Inv'
  <2>1. /\ suspended' = FALSE /\ UNCHANGED <<cached, resume_status, spc>>
        /\ resume_status \in BOOLEAN /\ \A c \in Callers : spc[c] = "idle"
    BY <1>3 DEF Resume, Inv, TypeOK
  <2>2. CASE resume_status
    BY <1>3, <2>1, <2>2, WriteStreamStep DEF Resume
  <2>3. CASE ~resume_status
    <3>1. UNCHANGED <<stream_status, regs, granted>>
      BY <1>3, <2>3 DEF Resume
    <3> QED
      BY <1>3, <2>1, <3>1
         DEF Inv, TypeOK, WbHeld, Held, FpsHeld, Alone, StreamHeld, TableHeld, Shut, cached
  <2> QED
    BY <2>2, <2>3
<1>4. CASE UNCHANGED vars
  BY <1>4 DEF vars, cached, power, Inv, TypeOK, WbHeld, Held, FpsHeld, Alone, StreamHeld,
              TableHeld, Shut
<1> QED
  BY <1>1, <1>2, <1>3, <1>4 DEF Next
-----------------------------------------------------------------------------
(***************************************************************************)
(* The theorems.                                                           *)
(***************************************************************************)
LEMMA Invariance == Spec => []Inv
BY InitInv, StepInv, PTL DEF Spec

\* What the driver remembers and the registers hold keep their types; a
\* suspended sensor does not stream.
THEOREM TypeCorrect == Spec => []TypeOK
<1>1. Inv => TypeOK
  BY DEF Inv
<1> QED
  BY <1>1, Invariance, PTL

\* What a call that returned 0 has set stays in force, whatever calls follow
\* and whichever of their writes fail, with the windows InForce names closed.
THEOREM SettingsInForce == Spec => []InForce
<1>1. Inv => InForce
  BY DEF Inv, InForce, Held
<1> QED
  BY <1>1, Invariance, PTL

\* The driver remembers the frame rate as the registers have it, and whether the
\* sensor streams, but for an s_stream between its status and its write, if the
\* ioctl S_STREAM and the video operation, which takes no lock, never overlap.
THEOREM DriverRemembers == Spec => []Remembered
<1>1. Inv => Remembered
  BY DEF Inv, Remembered, FpsHeld, StreamHeld
<1> QED
  BY <1>1, Invariance, PTL
=============================================================================
