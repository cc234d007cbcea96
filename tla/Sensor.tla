------------------------------- MODULE Sensor -------------------------------
(***************************************************************************)
(* The OV2775 image sensor driver (v4l2/sensor/ov2775/ov2775_mipi_v3.c):   *)
(* what it remembers of the sensor, what the sensor's registers hold, and  *)
(* what the results of its calls promise, when writes over I2C fail and    *)
(* calls come in any order.                                                *)
(*                                                                         *)
(* The calls of user space hold sensor->lock: each is one action, except   *)
(* that s_stream is called from the ioctl S_STREAM, which holds the lock,  *)
(* and as a video operation, which does not (the driver of the next entity *)
(* in the pipeline calls it, one call at a time): it is cut where the two  *)
(* can pass each other.  Suspend and resume, which take no lock, find all  *)
(* tasks frozen and no call in progress.                                   *)
(*                                                                         *)
(* A register here is the group of byte registers that hold one setting;   *)
(* one it failed to write holds Unknown, a mixture of old and new, unless  *)
(* it is one byte.                                                         *)
(* Exposure, test pattern and WRITE_REG, of which the driver remembers     *)
(* nothing, are left out, and so is S_HDR_RADIO, which writes no register. *)
(***************************************************************************)
EXTENDS Integers, FiniteSets, FiniteSetsExt

CONSTANTS Modes,    \* the sensor modes of pov2775_mode_info
          HdrModes, \* those that are not SENSOR_MODE_LINEAR
          Channels, \* the channels of white balance and black level
          Fps,      \* frame rates asked for; the mode allows MinFps .. MaxFps
          MinFps, MaxFps,
          Gains, WbGains, Levels, \* gains, white balance gains, black levels
          Envs      \* the environments: the windows each keeps closed

(***************************************************************************)
(* What the driver leaves to luck; an environment keeps some of it away.   *)
(*   wb_fails        a write of S_WB before or after the offsets fails     *)
(*   read_fails      S_GAIN or S_VSGAIN cannot read the gain register      *)
(*   stream_fails    the write that starts or stops the sensor fails       *)
(*   fmt_after_wb    set_fmt after a white balance was set                 *)
(*   fmt_after_fps   set_fmt after a frame rate was set                    *)
(*   mode_after_fps  S_SENSOR_MODE after a frame rate was set              *)
(*   fmt_in_stream   set_fmt while the sensor streams                      *)
(*   stop_after_mode  a stop between S_SENSOR_MODE and set_fmt, or         *)
(*                    S_SENSOR_MODE during a stop                          *)
(*   streams_overlap  the ioctl S_STREAM and the video operation at once   *)
(***************************************************************************)
Windows == {"wb_fails", "read_fails", "stream_fails", "fmt_after_wb", "fmt_after_fps",
            "mode_after_fps", "fmt_in_stream", "stop_after_mode", "streams_overlap"}

\* A gain of 0 stands for the register table's.  The first mode is the one after probe.
ASSUME SensorAssumption ==
    /\ HdrModes \subseteq Modes /\ 0 \in Modes /\ IsFiniteSet(Channels)
    /\ MinFps \in Nat \ {0} /\ MaxFps \in Nat /\ MinFps <= MaxFps /\ Fps \subseteq Nat
    /\ \A S \in {Gains, WbGains, Levels} : S \subseteq Nat \ {0}
    /\ Envs \subseteq SUBSET Windows

Unknown == -1
Names == ({"stream", "table", "fps", "conv", "lcg", "vs"} \X {"all"})
           \cup ({"wb", "blc"} \X Channels)
Reg(n) == <<n, "all">>
Streaming == Reg("stream")
\* One byte holds a field of each gain.
GainNames == {Reg("conv"), Reg("lcg"), Reg("vs")}

\* Who calls s_stream: the ioctl, and the driver of the next entity.
Callers == {"ioctl", "op"}

VARIABLES
    closed,         \* the windows this behaviour keeps closed
    mode, cur_fps, wb, blc, hcg, stream_status, resume_status, \* struct ov2775
    suspended,
    spc,            \* per caller: where its s_stream is
    regs,           \* what the registers hold
    granted         \* ghost: what they should by the calls that returned 0

cached == <<mode, cur_fps, wb, blc, hcg>>
power == <<stream_status, resume_status, suspended, spc>>
vars == <<closed, cached, power, regs, granted>>

Shut(W) == W \subseteq closed

\* What isp_s_blc writes for a white balance gain and a black level: a product of the two.
LevelRange == Max(Levels \cup {0}) + 1
Offset(gain, level) == gain * LevelRange + level

Values == {Unknown} \cup Modes \cup Gains \cup WbGains \cup MinFps .. MaxFps \cup {0, 1}
            \cup {Offset(g, l) : g \in WbGains \cup {0}, l \in Levels \cup {0}}

TypeOK ==
    /\ closed \in Envs /\ mode \in Modes /\ cur_fps \in MinFps .. MaxFps
    /\ wb \in [Channels -> WbGains \cup {0}] /\ blc \in Levels \cup {0}
    /\ hcg \in Gains \cup {0}
    /\ stream_status \in BOOLEAN /\ resume_status \in BOOLEAN /\ suspended \in BOOLEAN
    /\ regs \in [Names -> Values] /\ granted \in [Names -> Values]
    /\ regs[Streaming] \in {0, 1}
    /\ spc \in [Callers -> {"idle", "start", "stop", "resend"}]
    /\ suspended => ~stream_status /\ \A c \in Callers : spc[c] = "idle"

\* ov2775_probe: the sensor after reset, the first mode, no table loaded.
Init ==
    /\ closed \in Envs /\ mode = 0 /\ cur_fps = MaxFps
    /\ wb = [c \in Channels |-> 0] /\ blc = 0 /\ hcg = 0
    /\ stream_status = FALSE /\ resume_status = FALSE /\ suspended = FALSE
    /\ spc = [c \in Callers |-> "idle"]
    /\ regs = [n \in Names |-> IF n = Streaming THEN 0 ELSE Unknown]
    /\ granted = regs
-----------------------------------------------------------------------------
(* Writing registers.  ws maps the names a call writes to their values; ok *)
(* is FALSE if a write fails, and then all may be old, new or a mixture.   *)
Outcome(ws, ok) == IF ok THEN ws ELSE [n \in DOMAIN ws |-> Unknown]
Over(ws, f) == [n \in DOMAIN f |-> IF n \in DOMAIN ws THEN ws[n] ELSE f[n]]
After(ws, ok) == Over(Outcome(ws, ok), regs)

\* What a call promises by its result: all it sets, or nothing of it.
Grant(ws, ok) == granted' = Over(Outcome(ws, ok), granted)

\* A plain call: the result tells of every failed write.
Write(ws, ok) == regs' = After(ws, ok) /\ Grant(ws, ok)

\* The tasks run and sensor->lock is free.
Free == ~suspended /\ spc["ioctl"] = "idle"
-----------------------------------------------------------------------------
(* ov2775_set_sensor_mode: the registers follow with the next set_fmt.     *)
SetSensorMode(m) ==
    /\ Free
    /\ "mode_after_fps" \in closed => cur_fps = MaxFps
    /\ "stop_after_mode" \in closed => spc["op"] \notin {"stop", "resend"}
    /\ mode' = m /\ cur_fps' = MaxFps
    /\ UNCHANGED <<wb, blc, hcg, power, regs, granted>>

\* The register table of the mode: every setting, the sensor stopped.
Table == [n \in Names |-> CASE n = Reg("table") -> mode [] n = Reg("fps") -> MaxFps [] OTHER -> 0]

\* A failed write may leave the sensor running.
SetFmt(ok) ==
    /\ Free
    /\ "fmt_after_wb" \in closed => \A c \in Channels : wb[c] = 0
    /\ "fmt_after_fps" \in closed => cur_fps = MaxFps
    /\ "fmt_in_stream" \in closed => ~stream_status
    /\ \E s \in IF ok THEN {0} ELSE {0, regs[Streaming]} :
         regs' = [After(Table, ok) EXCEPT ![Streaming] = s]
    /\ Grant(Table, ok)
    /\ UNCHANGED <<cached, power>>

Clamp(fps) == IF fps > MaxFps THEN MaxFps ELSE IF fps < MinFps THEN MinFps ELSE fps

(* Mutant: the rate asked for is remembered.                               *)
SetFpsUnclamped(fps, ok) ==
    /\ Free
    /\ Write([n \in {Reg("fps")} |-> Clamp(fps)], ok) /\ cur_fps' = fps
    /\ UNCHANGED <<mode, wb, blc, hcg, power>>

SetFps(fps, ok) ==
    /\ Free
    /\ Write([n \in {Reg("fps")} |-> Clamp(fps)], ok) /\ cur_fps' = Clamp(fps)
    /\ UNCHANGED <<mode, wb, blc, hcg, power>>
-----------------------------------------------------------------------------
(* Gains.  The register they share is read, one field changed, and written *)
(* back; if the read failed, the other fields are what the stack held, and *)
(* the result does not tell.                                               *)
SetLongGain(g) ==
    /\ Free
    /\ hcg' = g
    /\ UNCHANGED <<mode, cur_fps, wb, blc, power, regs, granted>>

WriteGain(ws, ok, read) ==
    /\ Free
    /\ ~read => "read_fails" \notin closed
    /\ regs' = IF read THEN After(ws, ok)
               ELSE Over(Outcome(ws, ok), Over([n \in GainNames |-> Unknown], regs))
    /\ Grant(ws, ok)
    /\ UNCHANGED <<cached, power>>

\* The long exposure's gain waits for S_GAIN, in the modes that have one.
GainWrites(g) ==
    IF mode \in HdrModes
      THEN [n \in {Reg("conv"), Reg("lcg")} |-> IF n = Reg("conv") THEN hcg ELSE g]
      ELSE [n \in {Reg("conv")} |-> g]

SetGain(g, ok, read) == WriteGain(GainWrites(g), ok, read)

SetVsGain(g, ok, read) == WriteGain([n \in {Reg("vs")} |-> g], ok, read)
-----------------------------------------------------------------------------
(* White balance and black level.                                          *)
Offsets(w, level) == [n \in {"blc"} \X Channels |-> Offset(w[n[2]], level)]

SetBlc(level, ok) ==
    /\ Free
    /\ blc' = level
    /\ Write(Offsets(wb, level), ok)
    /\ UNCHANGED <<mode, cur_fps, wb, hcg, power>>

\* Only gains that differ from the remembered ones are written, ...
WbWrites(w) == [n \in {"wb"} \X {c \in Channels : w[c] # wb[c]} |-> w[n[2]]]

(* Mutant: offsets are written only if every gain is another.              *)
BlcWritesAll(w) ==
    IF \A c \in Channels : w[c] # wb[c] THEN Offsets(w, blc) ELSE [n \in {} |-> 0]

\* ... and then the offsets of all channels.
BlcWrites(w) == IF w # wb THEN Offsets(w, blc) ELSE [n \in {} |-> 0]

(* The gains are remembered whatever happened, and the result is that of   *)
(* the offsets: it forgets the failures before.                            *)
SetWb(w, gainsOk, ok) ==
    /\ Free
    /\ ~gainsOk => "wb_fails" \notin closed
    /\ regs' = Over(Outcome(WbWrites(w), gainsOk), After(BlcWrites(w), ok))
    /\ granted' = [n \in Names |->
         CASE n[1] = "wb"  -> IF ok THEN w[n[2]] ELSE Unknown
           [] n[1] = "blc" -> IF ok /\ granted[n] # Unknown THEN Offset(w[n[2]], blc) ELSE Unknown
           [] OTHER        -> granted[n]]
    /\ wb' = w
    /\ UNCHANGED <<mode, cur_fps, blc, hcg, power>>
-----------------------------------------------------------------------------
(* Streaming.  s_stream looks at no result of the write that starts or     *)
(* stops the sensor; after a stop it sleeps and sends a part of the table  *)
(* of the mode again, of which the result tells.                           *)
Bit(on) == IF on THEN 1 ELSE 0

Switched(on, fails) == IF fails THEN regs ELSE [regs EXCEPT ![Streaming] = Bit(on)]
Promised(on) == [granted EXCEPT ![Streaming] = Bit(on)]

\* The table sent again to registers r; g is what has been granted.
Resent(r, ok) == [r EXCEPT ![Reg("table")] = IF ok /\ @ = mode THEN @ ELSE Unknown]
Kept(g, ok) == IF ok THEN g ELSE [g EXCEPT ![Streaming] = Unknown, ![Reg("table")] = Unknown]

StopAllowed == "stop_after_mode" \in closed => regs[Reg("table")] \in {mode, Unknown}

\* The status first, ...
SetStream(c, on) ==
    /\ ~suspended /\ spc[c] = "idle"
    /\ on \/ StopAllowed
    /\ "streams_overlap" \in closed => \A d \in Callers : spc[d] = "idle"
    /\ stream_status' = on
    /\ spc' = [spc EXCEPT ![c] = IF on THEN "start" ELSE "stop"]
    /\ UNCHANGED <<cached, resume_status, suspended, regs, granted>>

\* ... then the register, ...
SwitchStream(c, fails) ==
    LET on == spc[c] = "start" IN
    /\ spc[c] \in {"start", "stop"}
    /\ fails => "stream_fails" \notin closed
    /\ regs' = Switched(on, fails) /\ granted' = Promised(on)
    /\ spc' = [spc EXCEPT ![c] = IF on THEN "idle" ELSE "resend"]
    /\ UNCHANGED <<cached, stream_status, resume_status, suspended>>

\* ... and the table 100 ms after a stop.
ResendTable(c, ok) ==
    /\ spc[c] = "resend"
    /\ regs' = Resent(regs, ok) /\ granted' = Kept(granted, ok)
    /\ spc' = [spc EXCEPT ![c] = "idle"]
    /\ UNCHANGED <<cached, stream_status, resume_status, suspended>>
-----------------------------------------------------------------------------
(* Suspend and resume call s_stream with nobody else running.              *)
WriteStream(on, fails, ok) ==
    /\ fails => "stream_fails" \notin closed
    /\ on \/ StopAllowed
    /\ stream_status' = on
    /\ regs' = IF on THEN Switched(on, fails) ELSE Resent(Switched(on, fails), ok)
    /\ granted' = IF on THEN Promised(on) ELSE Kept(Promised(on), ok)

Suspend(fails, ok) ==
    /\ ~suspended /\ suspended' = TRUE /\ \A c \in Callers : spc[c] = "idle"
    /\ resume_status' = stream_status
    /\ IF stream_status THEN WriteStream(FALSE, fails, ok)
                        ELSE UNCHANGED <<stream_status, regs, granted>>
    /\ UNCHANGED <<cached, spc>>

(* Mutant: resume starts the sensor whether it streamed or not.            *)
ResumeAlways(fails, ok) ==
    /\ suspended /\ suspended' = FALSE
    /\ regs' = [regs EXCEPT ![Streaming] = 1]
    /\ UNCHANGED <<cached, stream_status, resume_status, spc, granted>>

Resume(fails, ok) ==
    /\ suspended /\ suspended' = FALSE
    /\ IF resume_status THEN WriteStream(TRUE, fails, ok)
                        ELSE UNCHANGED <<stream_status, regs, granted>>
    /\ UNCHANGED <<cached, resume_status, spc>>
-----------------------------------------------------------------------------
Call ==
    \/ \E m \in Modes : SetSensorMode(m)
    \/ \E g \in Gains : SetLongGain(g)
    \/ \E c \in Callers, b \in BOOLEAN : SetStream(c, b) \/ SwitchStream(c, b) \/ ResendTable(c, b)
    \/ \E ok \in BOOLEAN :
         \/ SetFmt(ok) \/ \E f \in Fps : SetFps(f, ok) \/ \E l \in Levels : SetBlc(l, ok)
         \/ \E g \in Gains, read \in BOOLEAN : SetGain(g, ok, read) \/ SetVsGain(g, ok, read)
         \/ \E w \in [Channels -> WbGains], gainsOk \in BOOLEAN : SetWb(w, gainsOk, ok)

Next ==
    /\ Call \/ \E fails, ok \in BOOLEAN : Suspend(fails, ok) \/ Resume(fails, ok)
    /\ UNCHANGED closed

Spec == Init /\ [][Next]_vars
-----------------------------------------------------------------------------
(* What a call that returned 0 has set stays in force until another call   *)
(* sets it or fails to: writes that fail partway, the register the gains   *)
(* share, gains the driver does not write because it remembers them, and   *)
(* offsets that follow the white balance do not get in the way.            *)
InForce ==
    Shut({"wb_fails", "read_fails", "stream_fails", "fmt_after_wb", "stop_after_mode"}) =>
      \A n \in Names : granted[n] # Unknown => regs[n] = granted[n]

(* The driver remembers the sensor as it is: the frame rate that G_FPS     *)
(* tells, unless the write that last set it failed, and whether it streams,*)
(* which resume relies on, unless an s_stream has only set the status yet  *)
(* or two of them pass each other.                                         *)
Remembered ==
    /\ Shut({"fmt_after_fps", "mode_after_fps"}) =>
         (granted[Reg("fps")] # Unknown => regs[Reg("fps")] = cur_fps)
    /\ Shut({"stream_fails", "fmt_in_stream", "streams_overlap"}) =>
         \/ \E c \in Callers : spc[c] \in {"start", "stop"}
         \/ regs[Streaming] = 1 <=> stream_status
=============================================================================
