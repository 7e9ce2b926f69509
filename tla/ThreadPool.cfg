\* Two tasks can run at once while the third is queued, and a running task can
\* add the last one during stop.
SPECIFICATION FairSpec
CONSTANTS
  Worker = {w1, w2}
  Task = {t1, t2, t3}
  Main = Main
  NoThread = NoThread
  NoTask = NoTask
INVARIANTS EachTaskOnce NoLostWakeup StopWakesAll DrainedOnReturn ActiveWhileRunning
PROPERTIES StopReturns TasksRun ImplementsService
