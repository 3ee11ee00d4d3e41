------------------------------ MODULE MCStoreLock ------------------------------
\* TLC instances of StoreLock: any assignment of tasks to the threads.
EXTENDS StoreLock

AnyWorkload == [Threads -> Tasks]
=============================================================================
