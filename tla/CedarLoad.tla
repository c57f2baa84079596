------------------------------- MODULE CedarLoad -------------------------------
(***************************************************************************)
(* The load table of the Cedar VE driver and the clock rate chosen from it *)
(* (cedar_ve.c, VE_SUPPORT_DVFS).  Decoders announce their picture size    *)
(* and frame rate; every update recomputes the rate of ve_clk.  The table  *)
(* is written under the spinlock and read without it, and a rate set by    *)
(* user space (IOCTL_SET_VE_FREQ) competes with the computed one.          *)
(***************************************************************************)
EXTENDS Integers, FiniteSets, FiniteSetsExt

CONSTANTS
    Files,      \* file objects: each may be opened once
    Threads,    \* user threads inside an ioctl
    Channels,   \* thread_channel_id values
    NSlots,     \* MAX_VE_LOAD_PARAM_CHANNEL
    IdMax,      \* largest process_channel_id (0xefffffff)
    Params,     \* announced loads: [format, size, frame_rate]
    Freqs,      \* arguments of IOCTL_SET_VE_FREQ, in MHz
    MaxCalls,   \* bound: ioctls that start an update or set a rate
    BootRate,   \* rate of ve_clk after boot, in MHz
    End1, End2, End3, EndMax, Wrap   \* LEVELE_n_END_PIXELS and 2^32, in one unit

ASSUME LoadAssumption ==
    /\ NSlots \in Nat \ {0} /\ IdMax \in Nat /\ BootRate \in Nat /\ MaxCalls \in Nat
    /\ Params \subseteq [format : STRING, size : Nat, frame_rate : Nat]
    /\ {End1, End2, End3, EndMax, Wrap} \subseteq Nat
    /\ End1 < End2 /\ End2 < End3 /\ End3 < EndMax /\ EndMax < Wrap

VARIABLES
    load_infos,              \* the table
    user_setting_ve_freq,
    ve_rate,                 \* what clk_get_rate(ve_clk) returns, in MHz
    process_channel_id_cnt,
    channel,                 \* info->process_channel_id per file, or NoFile
    adj,                     \* the ioctl each thread is in
    calls,                   \* ioctls started so far, up to MaxCalls
    asked,                   \* history: the parameter last stored in each used slot
    patched,                 \* history: slots whose new frame rate was overwritten
    alone,                   \* history: threads whose call nothing has disturbed
    fresh,                   \* history: the last change of rate saw the present table
    crowded                  \* history: ids closed with more than one slot

loadVars == <<load_infos, user_setting_ve_freq, ve_rate, process_channel_id_cnt,
              channel, adj, calls, asked, patched, alone, fresh, crowded>>

Slots == 1..NSlots
NoFile == -1
Closed == -2
Zero == [format |-> "zero", size |-> 0, frame_rate |-> 0]
Empty == [is_used |-> FALSE, id |-> 0, thread |-> 0, param |-> Zero]
Idle == [at |-> "idle"]

Decoders == {"zero", "H264", "H265", "VP9", "OTHER"}   \* codec_format < VE_DECODER_FORMAT_MAX
InWater == 50..900                                     \* VE_CLK_LOW_WATER .. VE_CLK_HIGH_WATER
MaxFreq == 900                                         \* VE_PERFORMANCE_MAX_FREQ

Row(format, from, to, freq) == [format |-> format, from |-> from, to |-> to, freq |-> freq]

decoder_perform ==
    {Row("H264", 0, End1, 100), Row("H264", End1 + 1, End2, 200),
     Row("H264", End2 + 1, End3, 350), Row("H264", End3 + 1, EndMax, MaxFreq),
     Row("H265", 0, End1, 100), Row("H265", End1 + 1, End2, 150),
     Row("H265", End2 + 1, End3, 350), Row("H265", End3 + 1, EndMax, MaxFreq),
     Row("VP9", 0, End1, 150), Row("VP9", End1 + 1, End2, 200),
     Row("VP9", End2 + 1, End3, 350), Row("VP9", End3 + 1, EndMax, MaxFreq),
     Row("OTHER", 0, EndMax, MaxFreq)}

LoadInit ==
    /\ load_infos = [i \in Slots |-> Empty]
    /\ user_setting_ve_freq = 0
    /\ ve_rate = BootRate
    /\ process_channel_id_cnt = 0
    /\ channel = [f \in Files |-> NoFile]
    /\ adj = [t \in Threads |-> Idle]
    /\ calls = 0
    /\ asked = [i \in Slots |-> Zero]
    /\ patched = {}
    /\ alone = {}
    /\ fresh = FALSE
    /\ crowded = {}

IsOpen(f) == channel[f] \notin {NoFile, Closed}
InCall(f) == \E t \in Threads : adj[t] # Idle /\ adj[t].file = f

Call(t, f) ==
    /\ IsOpen(f) /\ adj[t] = Idle
    /\ calls < MaxCalls /\ calls' = calls + 1

(* A step of t that changes what the rate should be disturbs everybody else. *)
Disturb(t) ==
    /\ alone' = IF \A u \in Threads \ {t} : adj[u] = Idle THEN {t} ELSE {}
    /\ fresh' = FALSE

(***************************************************************************)
(* Open and release, as far as the table is concerned.                     *)
(***************************************************************************)
LoadOpen(f) ==
    /\ channel[f] = NoFile
    /\ LET id == IF process_channel_id_cnt + 1 > IdMax THEN 0 ELSE process_channel_id_cnt + 1
       IN  process_channel_id_cnt' = id /\ channel' = [channel EXCEPT ![f] = id]
    /\ UNCHANGED <<load_infos, user_setting_ve_freq, ve_rate, adj, calls, asked, patched, alone, fresh, crowded>>

SlotsOf(id) == {i \in Slots : load_infos[i].is_used /\ load_infos[i].id = id}

(* The first slot of the process only, and without a new rate. *)
RemoveCaseLoad(id) ==
    IF SlotsOf(id) = {} THEN UNCHANGED <<load_infos, asked, patched>>
    ELSE LET i == Min(SlotsOf(id))
         IN  /\ load_infos' = [load_infos EXCEPT ![i] = Empty]
             /\ asked' = [asked EXCEPT ![i] = Zero]
             /\ patched' = patched \ {i}

LoadRelease(f) ==
    /\ IsOpen(f)
    /\ ~InCall(f)
    /\ RemoveCaseLoad(channel[f])
    /\ channel' = [channel EXCEPT ![f] = Closed]
    /\ crowded' = IF Cardinality(SlotsOf(channel[f])) > 1 THEN crowded \cup {channel[f]} ELSE crowded
    /\ alone' = {} /\ fresh' = FALSE
    /\ UNCHANGED <<user_setting_ve_freq, ve_rate, process_channel_id_cnt, adj, calls>>

(***************************************************************************)
(* IOCTL_UPDATE_CASE_LOAD_PARAM: the table, under the spinlock.            *)
(***************************************************************************)
(* Faulty variant: the empty slot is looked for first. *)
MatchEmptyFirst(id, c) ==
    LET same == {i \in SlotsOf(id) : load_infos[i].thread = c}
        free == {i \in Slots : ~load_infos[i].is_used}
    IN  IF free # {} THEN Min(free) ELSE IF same # {} THEN Min(same) ELSE 0

Match(id, c) ==
    LET same == {i \in SlotsOf(id) : load_infos[i].thread = c}
        free == {i \in Slots : ~load_infos[i].is_used}
    IN  IF same # {} THEN Min(same) ELSE IF free # {} THEN Min(free) ELSE 0

StartAdjust(t, f) ==
    adj' = [adj EXCEPT ![t] = [at |-> "look", file |-> f, slot |-> 1,
                               total |-> 0, formats |-> {}, dec |-> 0, enc |-> 0]]

UpdateCaseLoad(t, f, c, p, remove) ==
    /\ Call(t, f)
    /\ LET i == Match(channel[f], c)
       IN  /\ load_infos' = IF i = 0 THEN load_infos
                            ELSE [load_infos EXCEPT ![i] =
                                    IF remove THEN Empty
                                    ELSE [is_used |-> TRUE, id |-> channel[f], thread |-> c, param |-> p]]
           /\ asked' = IF i = 0 THEN asked ELSE [asked EXCEPT ![i] = IF remove THEN Zero ELSE p]
           /\ patched' = patched \ {i}
    /\ StartAdjust(t, f)
    /\ Disturb(t)
    /\ UNCHANGED <<user_setting_ve_freq, ve_rate, process_channel_id_cnt, channel, crowded>>

(***************************************************************************)
(* adjust_ve_freq_by_case_load: slot by slot, without the lock.            *)
(***************************************************************************)
UnchangedByAdjust == UNCHANGED <<calls, user_setting_ve_freq, process_channel_id_cnt, channel, crowded>>

AtSlot(t, step) == adj[t] # Idle /\ adj[t].at = step /\ adj[t].slot \in Slots

Goto(t, step) == adj' = [adj EXCEPT ![t].at = step]

(* is_used and frame_rate of one slot; a slot cleared between the two reads *)
(* contributes no pixels either way.                                        *)
AdjustLook(t) ==
    /\ AtSlot(t, "look")
    /\ LET info == load_infos[adj[t].slot]
       IN  IF ~info.is_used THEN adj' = [adj EXCEPT ![t].slot = @ + 1]
           ELSE IF info.param.frame_rate <= 0 THEN Goto(t, "fix")
           ELSE Goto(t, "sum")
    /\ UnchangedByAdjust /\ UNCHANGED <<load_infos, ve_rate, asked, patched, alone, fresh>>

(* Faulty variant: the index is advanced before the default is stored. *)
AdjustFixNext(t) ==
    /\ AtSlot(t, "fix")
    /\ LET i == IF adj[t].slot = NSlots THEN 1 ELSE adj[t].slot + 1
       IN  load_infos' = [load_infos EXCEPT ![i].param.frame_rate = 60]
    /\ Goto(t, "sum")
    /\ UnchangedByAdjust /\ UNCHANGED <<ve_rate, asked, patched, alone, fresh>>

AdjustFix(t) ==
    /\ AtSlot(t, "fix")
    /\ load_infos' = [load_infos EXCEPT ![adj[t].slot].param.frame_rate = 60]
    /\ patched' = IF load_infos[adj[t].slot].param.frame_rate > 0 THEN patched \cup {adj[t].slot} ELSE patched
    /\ Goto(t, "sum")
    /\ UnchangedByAdjust /\ UNCHANGED <<ve_rate, asked, alone, fresh>>

(* Faulty variant: the sum is taken as a load of the last slot. *)
AdjustSumForgets(t) ==
    /\ AtSlot(t, "sum")
    /\ LET a == adj[t]
           p == load_infos[a.slot].param
           d == IF p.format \in Decoders THEN 1 ELSE 0
       IN  adj' = [adj EXCEPT ![t] = [a EXCEPT !.at = "look", !.slot = a.slot + 1,
                                               !.total = p.size * p.frame_rate,
                                               !.formats = a.formats \cup {p.format},
                                               !.dec = a.dec + d, !.enc = a.enc + 1 - d]]
    /\ UnchangedByAdjust /\ UNCHANGED <<load_infos, ve_rate, asked, patched, alone, fresh>>

AdjustSum(t) ==
    /\ AtSlot(t, "sum")
    /\ LET a == adj[t]
           p == load_infos[a.slot].param
           d == IF p.format \in Decoders THEN 1 ELSE 0
       IN  adj' = [adj EXCEPT ![t] = [a EXCEPT !.at = "look", !.slot = a.slot + 1,
                                               !.total = (a.total + p.size * p.frame_rate) % Wrap,
                                               !.formats = a.formats \cup {p.format},
                                               !.dec = a.dec + d, !.enc = a.enc + 1 - d]]
    /\ UnchangedByAdjust /\ UNCHANGED <<load_infos, ve_rate, asked, patched, alone, fresh>>

(* setup_ve_freq: an argument out of range changes nothing, and neither does *)
(* a clk_set_rate that fails; the caller is not told.                        *)
SetupVeFreq(mhz, ok) == ve_rate' = IF mhz \in InWater /\ ok THEN mhz ELSE ve_rate

Matching(a) == {r \in decoder_perform : r.format \in a.formats /\ a.total \in r.from..r.to}

AdjustSet(t, ok) ==
    /\ adj[t] # Idle /\ adj[t].at = "look" /\ adj[t].slot = NSlots + 1
    /\ LET a == adj[t]
       IN  IF a.formats = {} THEN ve_rate' = ve_rate
           ELSE IF a.enc > 0 \/ a.dec > 2 \/ Cardinality(a.formats) > 1
           THEN SetupVeFreq(user_setting_ve_freq, ok)
           ELSE IF Matching(a) = {} THEN ve_rate' = ve_rate
           ELSE LET freq == (CHOOSE r \in Matching(a) : TRUE).freq
                IN  SetupVeFreq(IF freq = MaxFreq THEN user_setting_ve_freq ELSE freq, ok)
    /\ adj' = [adj EXCEPT ![t] = Idle]
    /\ fresh' = (ok /\ t \in alone)
    /\ alone' = {}
    /\ UnchangedByAdjust /\ UNCHANGED <<load_infos, asked, patched>>

(***************************************************************************)
(* IOCTL_SET_VE_FREQ: set the rate, read it back, remember it.             *)
(***************************************************************************)
SetFreqRate(t, f, mhz, ok) ==
    /\ Call(t, f)
    /\ SetupVeFreq(mhz, ok)
    /\ adj' = [adj EXCEPT ![t] = [at |-> "get", file |-> f, ret |-> 0]]
    /\ Disturb(t)
    /\ UNCHANGED <<load_infos, user_setting_ve_freq, process_channel_id_cnt, channel, asked, patched, crowded>>

SetFreqGet(t) ==
    /\ adj[t] # Idle /\ adj[t].at = "get"
    /\ adj' = [adj EXCEPT ![t] = [@ EXCEPT !.at = "store", !.ret = ve_rate]]
    /\ UnchangedByAdjust /\ UNCHANGED <<load_infos, ve_rate, asked, patched, alone, fresh>>

SetFreqStore(t) ==
    /\ adj[t] # Idle /\ adj[t].at = "store"
    /\ user_setting_ve_freq' = adj[t].ret
    /\ adj' = [adj EXCEPT ![t] = Idle]
    /\ Disturb(t)
    /\ UNCHANGED <<load_infos, ve_rate, process_channel_id_cnt, channel, calls, asked, patched, crowded>>

LoadNext ==
    \/ \E f \in Files : LoadOpen(f) \/ LoadRelease(f)
    \/ \E t \in Threads, f \in Files :
          \/ \E c \in Channels, p \in Params, remove \in BOOLEAN : UpdateCaseLoad(t, f, c, p, remove)
          \/ \E mhz \in Freqs, ok \in BOOLEAN : SetFreqRate(t, f, mhz, ok)
    \/ \E t \in Threads :
          \/ AdjustLook(t) \/ AdjustFix(t) \/ AdjustSum(t)
          \/ \E ok \in BOOLEAN : AdjustSet(t, ok)
          \/ SetFreqGet(t) \/ SetFreqStore(t)

LoadSpec == LoadInit /\ [][LoadNext]_loadVars

--------------------------------------------------------------------------------
Used == {i \in Slots : load_infos[i].is_used}
FormatsUsed == {load_infos[i].param.format : i \in Used}
Pixels(i) == LET p == load_infos[i].param
             IN  p.size * (IF p.frame_rate = 0 THEN 60 ELSE p.frame_rate)
TotalPixels == MapThenSumSet(Pixels, Used)

(* A rate that user space can rely on: its own setting, once there is one.  *)
UserRate == ve_rate = user_setting_ve_freq \/ user_setting_ve_freq \notin InWater

(* After an update that no other call disturbed, the clock runs at what the *)
(* whole table asks for: the user's setting for encoders, mixed codecs and  *)
(* crowds, the row of the sum of the pixels otherwise.  Only a sum beyond   *)
(* the last row, which may have wrapped around, leaves the rate open.       *)
RateExplained ==
    fresh /\ Used # {} =>
        IF FormatsUsed \subseteq Decoders /\ Cardinality(FormatsUsed) = 1 /\ Cardinality(Used) <= 2
        THEN \/ TotalPixels > EndMax
             \/ \E r \in decoder_perform :
                   /\ FormatsUsed = {r.format} /\ r.from <= TotalPixels /\ TotalPixels <= r.to
                   /\ IF r.freq = MaxFreq THEN UserRate ELSE ve_rate = r.freq
        ELSE UserRate

(* A used slot holds what its owner announced last; its frame rate differs  *)
(* only where a rate of 0 became 60, or where an unlocked reader that had   *)
(* seen a 0 overwrote the rate of the entry that came after it.             *)
EntryExplained ==
    \A i \in Used :
        LET p == load_infos[i].param
        IN  /\ p.format = asked[i].format /\ p.size = asked[i].size
            /\ \/ p.frame_rate = asked[i].frame_rate
               \/ p.frame_rate = 60 /\ (asked[i].frame_rate = 0 \/ i \in patched)

(* A thread of a process has at most one slot, and a slot left behind by a  *)
(* closed file belongs to a process that had several.                       *)
SlotsExplained ==
    \A i \in Used :
        /\ \A j \in Used : load_infos[i].id = load_infos[j].id /\ load_infos[i].thread = load_infos[j].thread => i = j
        /\ \/ \E f \in Files : channel[f] = load_infos[i].id
           \/ load_infos[i].id \in crowded

================================================================================
