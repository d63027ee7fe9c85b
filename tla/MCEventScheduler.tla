-------------------------- MODULE MCEventScheduler --------------------------
EXTENDS EventScheduler

CONSTANTS c1, c2, e1, e2, r1

\* The calls of two clients, and the call each callback makes.
Runs(p1, p2, ofE1, ofE2, ofR) ==
    [x \in {c1, c2, e1, e2, r1} |->
        CASE x = c1 -> p1 [] x = c2 -> p2
          [] x = e1 -> ofE1 [] x = e2 -> ofE2 [] x = r1 -> ofR]

schedule(e, t)  == Call("scheduleEvent", e, t)
recur(t)        == Call("scheduleRecurringEvent", r1, t)
cancel(o, e)    == Call(o, e, 0)
move(o, e, t)   == Call(o, e, t)
plain(o)        == Call(o, None, 0)

ProgramsSafe == {
    \* events overtake each other while one is waited for
    Runs(<<schedule(e1, 3), plain("start"), cancel("cancelEvent", e1)>>,
         <<schedule(e2, 1), move("rescheduleEventAndWait", e2, 3)>>,
         move("rescheduleEvent", e2, 2), Nothing, Nothing),
    \* a recurring event is cancelled by a callback and by clients
    Runs(<<schedule(e1, 2), recur(1), plain("start"), plain("stop")>>,
         <<cancel("cancelEventAndWait", r1)>>,
         cancel("cancelEvent", r1), Nothing, move("rescheduleEvent", e1, 3)),
    Runs(<<plain("start"), recur(0), cancel("cancelEventAndWait", r1)>>,
         <<schedule(e1, 2), cancel("cancelEventAndWait", e1)>>,
         Nothing, Nothing, cancel("cancelEvent", r1)),
    \* everything is cancelled, by a client and by a callback
    Runs(<<recur(1), schedule(e1, 1), plain("start")>>,
         <<plain("cancelAllEventsAndWait"), cancel("cancelEventAndWait", r1)>>,
         move("rescheduleEvent", e1, 2), Nothing, Nothing),
    \* the scheduler is stopped and started again
    Runs(<<recur(1), plain("start"), plain("stop"), plain("start")>>,
         <<schedule(e1, 2), plain("stop")>>,
         plain("cancelAllEvents"), Nothing, Nothing)
}

\* Two overdue events when the scheduler is started.
ProgramsLate == {
    Runs(<<recur(1), schedule(e1, 2), plain("start")>>, <<>>,
         Nothing, Nothing, Nothing)
}
=============================================================================
