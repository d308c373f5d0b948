---------------------------- MODULE MCOperations ----------------------------
(* 2^6 for 2^31.  As results, 90 and 114 read -ENOSYS and -EFAULT, and two *)
(* buffers of 57 bytes do, too.                                            *)
EXTENDS Operations

MCScalars == {0, 3, 90, 114}
MCCounts == {0, 2, 3}
MCBufLens == {0, 57}

(* Buffers around the size of the header and its fields, and control       *)
(* lengths that with the rest exceed a usize.                              *)
MCIncoming == {0, 4, 30}
MCParses ==
    [len : {0, 15, 16, 20, 23, 24, 40}, name_len : {0, 4, 5}, control_len : {0, 3, 20, 60, 63},
     header : [namelen : MCIncoming, controllen : MCIncoming, payloadlen : MCIncoming]]
==============================================================================
