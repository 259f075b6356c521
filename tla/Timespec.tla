------------------------------ MODULE Timespec ------------------------------
(***************************************************************************)
(* Arithmetic of times (src/src/timespec.rs); EndpointProofs proves what   *)
(* it computes.  A time has its seconds in an i64 and its nanoseconds in   *)
(* an i32; those of the operands lie in 0..NSINSEC-1: nothing overflows.   *)
(***************************************************************************)
EXTENDS Integers

NSINSEC == 1000000000

Time == [sec : Int, nsec : Int]
Total(a) == a.sec * NSINSEC + a.nsec

\* More than a second is carried; exactly one is not.
Carried(a) ==
    IF a.nsec > NSINSEC
    THEN [sec |-> a.sec + a.nsec \div NSINSEC, nsec |-> a.nsec - (a.nsec \div NSINSEC) * NSINSEC]
    ELSE a

\* The division rounds to zero, hence the second borrow.
Borrowed(a) ==
    LET take == (-a.nsec) \div NSINSEC
        b == [sec |-> a.sec - take, nsec |-> a.nsec + take * NSINSEC]
    IN  IF a.nsec >= 0 THEN a
        ELSE IF b.nsec < 0 THEN [sec |-> b.sec - 1, nsec |-> b.nsec + NSINSEC] ELSE b

unitize(a) == Borrowed(Carried(a))

\* The nanoseconds of the second operand are subtracted in both.
add(a, b) == unitize([sec |-> a.sec + b.sec, nsec |-> a.nsec - b.nsec])
sub(a, b) == unitize([sec |-> a.sec - b.sec, nsec |-> a.nsec - b.nsec])
=============================================================================
