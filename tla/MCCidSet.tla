------------------------------ MODULE MCCidSet ------------------------------
(* A small instance of CidSetText: ids that share a hash, hashes of the same *)
(* and of different length, and a codec above 127 (0x90, an Ethereum block). *)
EXTENDS CidSetText

MCCids == { ipfs_cid_new(0, <<1, 200>>, CID_DAG_PROTOBUF),
            ipfs_cid_new(1, <<1, 200>>, 85),
            ipfs_cid_new(1, <<1, 200>>, 144),
            ipfs_cid_new(1, <<2, 7>>, 85),
            ipfs_cid_new(1, [i \in 1 .. 130 |-> i], 113),
            ipfs_cid_new(0, <<>>, CID_DAG_PROTOBUF) }
=============================================================================
