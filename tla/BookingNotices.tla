-------------------------- MODULE BookingNotices --------------------------
(***************************************************************************)
(* The notifications that create, cancel and payBooking insert once their  *)
(* own write is committed, first the guest's, then the tenant admins'.     *)
(* Each refers to the booking: when that is gone by then, the insert       *)
(* fails on the foreign key and the handler ends there.                    *)
(***************************************************************************)
EXTENDS RentalStore

Notice(r, to) == [event |-> req[r].op, booking |-> req[r].booking, to |-> to]

NotifyUser(r) ==
  /\ req[r].at = "notifyUser"
  /\ IF Exists(req[r].booking)
     THEN /\ notice' = notice \cup {Notice(r, "user")}
          /\ Goto(r, "notifyAdmins")
     ELSE Finish(r) /\ UNCHANGED notice
  /\ UNCHANGED <<listing, booking, block, payment, invoice>>

\* One step for the admins' rows, written side by side (Promise.all).
NotifyAdmins(r) ==
  /\ req[r].at = "notifyAdmins"
  /\ IF Exists(req[r].booking)
     THEN notice' = notice \cup {Notice(r, "admins")}
     ELSE UNCHANGED notice
  /\ Finish(r)
  /\ UNCHANGED <<listing, booking, block, payment, invoice>>
=============================================================================
