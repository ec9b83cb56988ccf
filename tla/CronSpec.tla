------------------------------- MODULE CronSpec -------------------------------
(***************************************************************************)
(* The five fields of a cron job's spec and the test whether a job is due, *)
(* as cron.py reads them: a field is a list of parts, tried one after the  *)
(* other; the first that matches, or that cannot be parsed, ends the test. *)
(*                                                                         *)
(* A part is [kind, from, to, step]: "star" ("*", "*/s"), "range" ("a-b",  *)
(* "a-b/s"; "a" and "a/s" with from = to) or "bad".                        *)
(***************************************************************************)
EXTENDS Integers, Sequences

Star(step) == [kind |-> "star", from |-> 0, to |-> 0, step |-> step]
Span(a, b, step) == [kind |-> "range", from |-> a, to |-> b, step |-> step]
Number(a) == Span(a, a, 1)
Bad == [kind |-> "bad", from |-> 0, to |-> 0, step |-> 1]

(* What split and int leave of any text: no part starts below 0, and a step *)
(* is positive; nothing keeps a range within the values of its field.       *)
Parts == [kind : {"star", "range", "bad"}, from : Nat, to : Int, step : Nat \ {0}]
CronSpecs == [minute : Seq(Parts), hour : Seq(Parts), day : Seq(Parts),
              month : Seq(Parts), dow : Seq(Parts)]

(* One part against a value of a field that starts at lo. *)
PartMatch(part, value, lo, hi) ==
    LET start == IF part.kind = "star" THEN lo ELSE part.from
        end == IF part.kind = "star" THEN hi ELSE part.to
    IN start <= value /\ value <= end /\ (value - start) % part.step = 0

(* "yes", "no", or "raise" when a bad part comes before any that matches. *)
FieldMatch(field, value, lo, hi) ==
    LET Matches(i) == field[i].kind # "bad" /\ PartMatch(field[i], value, lo, hi)
        Stops(i) == field[i].kind = "bad" \/ Matches(i)
    IN IF \A i \in DOMAIN field : ~Stops(i) THEN "no"
       ELSE IF \E i \in DOMAIN field : Matches(i) /\ \A k \in 1..(i - 1) : ~Stops(k) THEN "yes"
       ELSE "raise"

(* Faulty variant: Sunday is 0 only. *)
DowMatchZero(field, weekday) == FieldMatch(field, (weekday + 1) % 7, 0, 7)

(* Python's Monday is 0, cron's Sunday is 0 and 7. *)
DowMatch(field, weekday) ==
    LET dow == (weekday + 1) % 7
        first == FieldMatch(field, dow, 0, 7)
    IN IF first = "no" /\ dow = 0 THEN FieldMatch(field, 7, 0, 7) ELSE first

(* The fields are tried in order, and the first "no" hides what follows. *)
JobIsDue(spec, t) ==
    LET results == <<FieldMatch(spec.minute, t.minute, 0, 59),
                     FieldMatch(spec.hour, t.hour, 0, 23),
                     FieldMatch(spec.day, t.day, 1, 31),
                     FieldMatch(spec.month, t.month, 1, 12),
                     DowMatch(spec.dow, t.weekday)>>
    IN IF \A i \in 1..5 : results[i] = "yes" THEN "yes"
       ELSE IF \E i \in 1..5 : results[i] = "raise" /\ \A k \in 1..(i - 1) : results[k] = "yes"
       THEN "raise"
       ELSE "no"

-----------------------------------------------------------------------------
(* What a spec means, whatever the order of its parts: a field denotes the  *)
(* values lo..hi that one of its parts counts out (from where it starts,    *)
(* even below lo), and Sunday has two names.                                *)
Denotes(field, v, lo, hi) ==
    \E i \in DOMAIN field :
       LET part == field[i]
           start == IF part.kind = "star" THEN lo ELSE part.from
           end == IF part.kind = "star" THEN hi ELSE part.to
       IN part.kind # "bad" /\ v <= end /\ \E n \in 0..hi : v = start + n * part.step

Due(spec, t) == /\ Denotes(spec.minute, t.minute, 0, 59)
                /\ Denotes(spec.hour, t.hour, 0, 23)
                /\ Denotes(spec.day, t.day, 1, 31)
                /\ Denotes(spec.month, t.month, 1, 12)
                /\ \E d \in 0..7 : Denotes(spec.dow, d, 0, 7) /\ t.weekday = (d + 6) % 7
=============================================================================
