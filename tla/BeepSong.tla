------------------------------ MODULE BeepSong ------------------------------
(***************************************************************************)
(* The song player of applications/beep.c: one thread that plays a song    *)
(* note by note and is told what to play through a mailbox of four         *)
(* commands, by the shell (beep_test) or by the application                *)
(* (beep_ctrl_song).                                                       *)
(*                                                                         *)
(* The mailbox is the abstract queue BoundedFifo, which Mailbox            *)
(* implements.  A step of the thread ends where another thread can run:    *)
(* at a delay, and before each mailbox operation.                          *)
(***************************************************************************)
EXTENDS BeepTone, FiniteSets

CONSTANTS
    Songs,      \* song_alarm1, song_alarm2: what commands 1, 2, ... select
    Commands,   \* the values sent; those that are no song number mean stop
    Size,       \* capacity of the mailbox
    Faults,     \* what may fail in beep_song_thread: "pwm", "memory"
    NoMail      \* mb_val before the first command

ASSUME BeepSongAssumption ==
    /\ Commands \subseteq Nat
    /\ Size \in Nat \ {0}
    /\ Faults \subseteq {"pwm", "memory"}
    /\ NoMail \notin Commands
    /\ \A s \in DOMAIN Songs : beep_song_get_len(Songs[s]) \in Nat

\* The songs have no rest (beep_set divides by the frequency) and no tone outside the tables.
ASSUME SongsAssumption ==
    \A s \in DOMAIN Songs : \A i \in 1 .. beep_song_get_len(Songs[s]) :
        Songs[s][i][1] \in Nat /\ DecodableTone(Songs[s][i][1])

VARIABLES
    pc,           \* where beep_song_thread is
    queue, got,   \* beep_mbox; got["song"] is the command received last
    created,      \* beep_mbox # RT_NULL
    song_handle,  \* number of the selected song, or 0 for RT_NULL
    song_len, index,
    pwm,          \* the PWM channel: enabled, and the frequency set
    asserted,     \* an RT_ASSERT failed: the system has stopped
    late          \* history: notes begun since the first stop in the mailbox was sent

vars == <<pc, queue, got, created, song_handle, song_len, index, pwm, asserted, late>>
mailVars == <<queue, got>>
songVars == <<song_handle, song_len, index>>

Mbox == INSTANCE BoundedFifo WITH Threads <- {"song"}, Values <- Commands

\* beep_select_song: the song a command selects, or RT_NULL.  Every selection tunes the
\* frequency table the same way.
beep_select_song(cmd) == IF cmd \in DOMAIN Songs THEN cmd ELSE 0
freq_tab_new == beep_song_decode_new_freq(SOUND_SIGNATURE, SOUND_OCTACHORD)

IsStop(cmd) == beep_select_song(cmd) = 0
StopQueued == \E i \in DOMAIN queue : IsStop(queue[i])

Init ==
    /\ pc = "start"
    /\ Mbox!Init
    /\ created = FALSE
    /\ song_handle = 0 /\ song_len = 0 /\ index = 0
    /\ pwm = [on |-> FALSE, freq |-> 0]
    /\ asserted = FALSE
    /\ late = 0

Goto(from, to) == ~asserted /\ pc = from /\ pc' = to

\* beep_init finds the PWM device and rt_mb_create gets its memory.
ThreadStart ==
    /\ Goto("start", "wait")
    /\ created' = TRUE
    /\ UNCHANGED <<mailVars, songVars, pwm, asserted, late>>

\* One of them fails and the thread returns; there is no mailbox.
ThreadFails ==
    /\ Faults # {}
    /\ Goto("start", "dead")
    /\ UNCHANGED <<mailVars, songVars, created, pwm, asserted, late>>

Select(song) ==
    /\ song_handle' = song
    /\ song_len' = beep_song_get_len(Songs[song])

\* rt_mb_recv(RT_WAITING_FOREVER): a stop while nothing plays is ignored.
WaitCommand ==
    /\ ~asserted
    /\ pc = "wait"
    /\ Mbox!Dequeue("song")
    /\ \/ /\ IsStop(Head(queue))
          /\ song_handle' = 0
          /\ late' = 0
          /\ UNCHANGED <<pc, song_len, index>>
       \/ /\ ~IsStop(Head(queue))
          /\ pc' = "play"
          /\ Select(beep_select_song(Head(queue)))
          /\ index' = 0
          /\ UNCHANGED late
    /\ UNCHANGED <<created, pwm, asserted>>

\* Head of the for loop, beep_set and beep_on, up to the first delay.
BeginNote ==
    /\ Goto("play", "sound")
    /\ index < song_len
    /\ pwm' = [on |-> TRUE, freq |-> beep_song_get_data(Songs[song_handle], index, freq_tab_new).freq]
    /\ late' = IF StopQueued THEN late + 1 ELSE 0
    /\ UNCHANGED <<mailVars, songVars, created, asserted>>

\* The loop ends.
EndSong ==
    /\ Goto("play", "wait")
    /\ index >= song_len
    /\ UNCHANGED <<mailVars, songVars, created, pwm, asserted, late>>

\* The delay of sound_len is over: beep_off, and the delay of nosound_len.
EndNote ==
    /\ Goto("sound", "poll")
    /\ pwm' = [pwm EXCEPT !.on = FALSE]
    /\ UNCHANGED <<mailVars, songVars, created, asserted, late>>

\* rt_mb_recv(RT_WAITING_NO) finds nothing.
PollNothing ==
    /\ Goto("poll", "play")
    /\ queue = <<>>
    /\ index' = index + 1
    /\ UNCHANGED <<mailVars, song_handle, song_len, created, pwm, asserted, late>>

\* Mutant: the command of the song that is playing restarts it.
PollSong_Restarts ==
    /\ Goto("poll", "play")
    /\ Mbox!Dequeue("song")
    /\ ~IsStop(Head(queue))
    /\ Select(beep_select_song(Head(queue)))
    /\ index' = 1
    /\ UNCHANGED <<created, pwm, asserted, late>>

\* Mutant: commands are looked at only after every other note.
PollSong_Waits ==
    /\ Goto("poll", "play")
    /\ queue # <<>> /\ ~IsStop(Head(queue))
    /\ index' = index + 1
    /\ IF index % 2 = 0 THEN UNCHANGED mailVars ELSE Mbox!Dequeue("song")
    /\ UNCHANGED <<song_handle, song_len, created, pwm, asserted, late>>

\* It finds a song: the same one goes on, another one is switched to with index = 0, which
\* the loop increments, so that it begins with its second note.
PollSong ==
    /\ Goto("poll", "play")
    /\ Mbox!Dequeue("song")
    /\ ~IsStop(Head(queue))
    /\ LET song == beep_select_song(Head(queue))
       IN  \/ /\ song = song_handle
              /\ index' = index + 1
              /\ UNCHANGED <<song_handle, song_len>>
           \/ /\ song # song_handle
              /\ Select(song)
              /\ index' = 0 + 1
    /\ UNCHANGED <<created, pwm, asserted, late>>

\* Mutant: a stop is read and dropped.
PollStop_Ignored ==
    /\ Goto("poll", "play")
    /\ Mbox!Dequeue("song")
    /\ IsStop(Head(queue))
    /\ index' = index + 1
    /\ UNCHANGED <<song_handle, song_len, created, pwm, asserted, late>>

\* It finds a stop.
PollStop ==
    /\ Goto("poll", "reset")
    /\ Mbox!Dequeue("song")
    /\ IsStop(Head(queue))
    /\ late' = 0
    /\ UNCHANGED <<songVars, created, pwm, asserted>>

\* rt_mb_control(RT_IPC_CMD_RESET) drops the commands behind the stop; break.
ResetMailbox ==
    /\ Goto("reset", "wait")
    /\ Mbox!Reset
    /\ UNCHANGED <<songVars, created, pwm, asserted, late>>

SongThread ==
    \/ ThreadStart \/ ThreadFails
    \/ WaitCommand
    \/ BeginNote \/ EndNote \/ EndSong
    \/ PollNothing \/ PollSong \/ PollStop
    \/ ResetMailbox

(***************************************************************************)
(* rt_mb_send from beep_test or beep_ctrl_song.  The song thread is more   *)
(* urgent than every sender, so it has left "start" before the first one.  *)
(***************************************************************************)
SendAccepted(cmd) ==
    /\ ~asserted /\ created
    /\ Mbox!Enqueue(cmd)
    /\ UNCHANGED <<pc, songVars, created, pwm, asserted, late>>

\* RT_ASSERT(mb != RT_NULL) in rt_mb_send_wait fails: rt_assert_handler never returns.
SendAsserts ==
    /\ ~asserted /\ pc = "dead"
    /\ asserted' = TRUE
    /\ UNCHANGED <<pc, mailVars, songVars, created, pwm, late>>

\* A send to a full mailbox returns -RT_EFULL, which nobody looks at, and changes nothing.
Send(cmd) == SendAccepted(cmd) \/ SendAsserts

Next == SongThread \/ \E cmd \in Commands : Send(cmd)

Spec == Init /\ [][Next]_vars

\* The song thread has priority 2: it runs as soon as its delay or its wait is over.
FairSpec == Spec /\ WF_vars(SongThread)
-----------------------------------------------------------------------------
\* Whatever switches came, what plays is what the last command read from the mailbox asked for,
\* a stop included; a note that sounds is a note of that song (not its end mark, nor what lies
\* behind it) with the frequency that song and position give; between notes, after a stop and
\* while the thread waits the buzzer is off.
PlaysLastCommand ==
    /\ pwm.on => pc = "sound"
    /\ pc \in {"play", "sound", "poll"} => song_handle = beep_select_song(got["song"])
    /\ pc = "sound" =>
          /\ index < beep_song_get_len(Songs[song_handle])
          /\ pwm.freq = beep_song_get_data(Songs[song_handle], index, freq_tab_new).freq
          /\ pwm.freq > 0

\* Once a stop is in the mailbox, at most Size more notes begin: each
\* note is followed by reading one command, and only a stop can be behind Size - 1 others.
StopIsPrompt == late <= Size

\* A song is played note after note: its position only moves to the next note, and back
\* to the first one only when the thread takes a command while it is idle.
NotesInOrder ==
    [][song_handle' = song_handle /\ index' # index =>
          index' = index + 1 \/ (pc = "wait" /\ index' = 0)]_vars

\* A stop that is in the mailbox ends the song, whatever is sent in the meantime.
StopSilences == StopQueued ~> (pc = "wait" /\ ~pwm.on)
-----------------------------------------------------------------------------
(***************************************************************************)
(* The arithmetic of BeepTone against reference definitions, for every     *)
(* tuning the comments of beep.c allow (0 to 11 semitones, -2 to +2        *)
(* octaves) and every note of the song format; pc = "start" only makes TLC *)
(* evaluate that once.                                                     *)
(***************************************************************************)
Tunings == [signature : 0 .. 11, octachord : -2 .. 2]

\* rest or note 1..7, low/middle/high, natural/sharp; 1/1 .. 1/64, effect, dotted.
Tones == {n + 10 * r + 100 * s : n \in 0 .. 7, r \in 1 .. 3, s \in 0 .. 1}
Lengths == {d + 10 * e + 100 * p : d \in 0 .. 6, e \in 0 .. 2, p \in 0 .. 1}
PlayableTones == {t \in Tones : Note(t) = 0 \/ DecodableTone(t)}

Table(tuning) == beep_song_decode_new_freq(tuning.signature, tuning.octachord)

\* The pitch in semitones above the lowest C of freq_tab.
Semitones(tone, t) ==
    sign_tab[Note(tone)] + Sharp(tone) + t.signature + 12 * (t.octachord + (Range(tone) - 2))

\* A pitch n octaves up has 2^n times the frequency, rounded down.
Pitch(s) ==
    IF s >= 0 THEN freq_tab[(s % 12) + 1] * 2 ^ (s \div 12)
    ELSE freq_tab[(s % 12) + 1] \div 2 ^ (-(s \div 12))

\* Whatever the transposition, the octave and the sharp, a decoded note has the
\* frequency of its pitch: no 16-bit overflow, no wrong carry into the next octave. Only
\* a high note of a table that was lowered first may be 1 Hz flat, from rounding. The PWM
\* signal for it is low for 3% of the period at volume 3, up to rounding, and never zero.
InTune ==
    pc = "start" => \A tuning \in Tunings, tone \in PlayableTones :
        LET freq == Frequency(tone, Table(tuning))
            pitch == Pitch(Semitones(tone, tuning))
            flat == IF tuning.octachord < 0 /\ Range(tone) = 3 THEN 1 ELSE 0
            p == beep_set(freq, 3)
            low == p.period - p.pulse
        IN  IF Note(tone) = 0 THEN freq = 0
            ELSE /\ freq \in (pitch - flat) .. pitch
                 /\ p.pulse \in 1 .. p.period
                 /\ low > 0 /\ low \in ((3 * p.period) \div 100 - 2) .. ((3 * p.period) \div 100)

\* Sound and silence together last exactly the note's value, dots included; a legato
\* note has no silence, a rest no sound, and a staccato one sounds no longer than a
\* normal one. The ticks slept cover each of the two, with less than one tick to spare.
InTime ==
    pc = "start" => \A tone \in PlayableTones, length \in Lengths :
        LET d == beep_song_decode(tone, length, freq_tab_new)
            beats == (SEMIBREVE_LEN * (IF Dotted(length) = 1 THEN 3 ELSE 2))
                         \div (2 * 2 ^ Division(length))
        IN  /\ d.sound_len + d.nosound_len = beats
            /\ Note(tone) = 0 => d.sound_len = 0
            /\ Effect(length) = 1 /\ Note(tone) # 0 => d.nosound_len = 0
            /\ Effect(length) = 2 => d.sound_len <= (beats * 4) \div 5
            /\ \A ms \in {d.sound_len, d.nosound_len} :
                  LET slept == rt_tick_from_millisecond(ms) * (1000 \div RT_TICK_PER_SECOND)
                  IN  ms <= slept /\ slept < ms + 1000 \div RT_TICK_PER_SECOND
=============================================================================
