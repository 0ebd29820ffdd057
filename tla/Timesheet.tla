----------------------------- MODULE Timesheet -----------------------------
(***************************************************************************)
(* What Fahriva promises about work time, without transactions: shifts of  *)
(* one driver never meet, a command is booked once and about the driver's  *)
(* own open shift, and what the clock recorded changes by decision only,   *)
(* once for each correction.                                               *)
(***************************************************************************)
EXTENDS Integers

CONSTANTS Marks,       \* pairs of a driver and an identifier of a command
          Asked,       \* identifiers of corrections
          Nil
VARIABLES shift,       \* recorded shifts
          booked,      \* marks of the commands carried out
          decided      \* corrections decided

sheet == <<shift, booked, decided>>

Apart(x, y) == \/ x.end # Nil /\ x.end <= y.start
               \/ y.end # Nil /\ y.end <= x.start

(* One shift of driver d is recorded or replaced by y.                     *)
Recorded(d, y) ==
    /\ shift' = {z \in shift : z.id # y.id} \cup {y}
    /\ y.driver = d
    /\ \A z \in shift : z.id = y.id => z.clock = y.clock
    /\ \A z \in shift : z.id # y.id /\ z.driver = d => Apart(y, z)

SheetInit == shift = {} /\ booked = {} /\ decided = {}

(* A driver begins a shift, or goes on with the one that is open.          *)
Work ==
    /\ \E m \in Marks \ booked :
          /\ booked' = booked \cup {m}
          /\ \E y \in shift' :
                /\ Recorded(m[1], y) /\ y.clock
                /\ \/ y.end = Nil /\ \A z \in shift : z.id # y.id
                   \/ \E z \in shift : /\ z.id = y.id /\ z.driver = y.driver
                                       /\ z.start = y.start /\ z.end = Nil
                                       /\ z.break <= y.break
    /\ UNCHANGED decided

(* The office records or amends a shift the clock knows nothing of.        *)
Keep ==
    /\ \E y \in shift' : Recorded(y.driver, y) /\ ~ y.clock
    /\ UNCHANGED <<booked, decided>>

(* A correction of an ended shift is rejected or takes effect.             *)
Settle ==
    /\ \E c \in Asked \ decided : decided' = decided \cup {c}
    /\ \/ UNCHANGED shift
       \/ \E y \in shift' : /\ Recorded(y.driver, y)
                            /\ \E z \in shift : /\ z.id = y.id /\ z.driver = y.driver
                                                /\ z.end # Nil /\ y.end # Nil
    /\ UNCHANGED booked

SheetNext == Work \/ Keep \/ Settle

SheetSpec == SheetInit /\ [][SheetNext]_sheet
=============================================================================
