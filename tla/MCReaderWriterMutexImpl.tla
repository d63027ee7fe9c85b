----------------------- MODULE MCReaderWriterMutexImpl -----------------------
(* Instances of ReaderWriterMutexImpl for TLC. *)
EXTENDS ReaderWriterMutexImpl, TLC

CONSTANTS t1, t2, t3, t4

Only(r1, r2, r3, r4) == (t1 :> r1) @@ (t2 :> r2) @@ (t3 :> r3) @@ (t4 :> r4)

Either == ReadCalls \cup {"lockWrite"}

\* Threads that ask for either lock, and a writer; writers that also try.
RolesTame == {Only(Either, Either, ReadCalls, {"lockWrite"}),
              Only(WriteCalls, WriteCalls, {"tryLockWrite"}, {"lockWrite"})}

\* One thread tries to get the write lock while another reads.
RolesTry == {Only({"tryLockWrite"}, {"lockRead"}, {}, {})}

=============================================================================
