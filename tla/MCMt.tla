--------------------------------- MODULE MCMt ---------------------------------
EXTENDS MtRun

\* Kernels that index with lda, on small matrices; the others on 32 rows.
Portable == {"ae", "ag", "ai", "an", "ap", "aq", "ar", "bb", "bh", "bj", "bm", "bs", "cg",
             "ci", "cs", "dm", "ds"}
Fixed == {"ad", "af", "ak", "al", "am", "at", "av", "ay", "az", "bc", "bf", "bk", "bo", "br",
          "ce", "ck", "cl", "cv", "cy", "dc", "df", "do", "dr", "du", "dv"}
Racing == {"cf", "cm"}   \* with two cores: see the README

MCJobs ==
  [kernel : Portable, nc : {1, 2}, lda : {8}]
    \cup [kernel : Fixed, nc : {1, 2}, lda : {32}]
    \cup [kernel : Racing, nc : {1}, lda : {32}]
    \cup [kernel : {"ai", "ap", "bh", "ds"}, nc : {4}, lda : {16}]
    \cup [kernel : VectorSums, nc : {1, 2}, lda : {16}]

\* The kernels written for 32 rows on the data set of 16, as they are built.
DatasetJobs ==
  [kernel : {"ad", "af", "al", "am", "at", "av", "ay", "az", "bf", "bk", "bo", "br", "cf", "cl",
             "cm", "cv", "cy", "df", "do", "dr", "du", "dv"}, nc : {1}, lda : {16}]
=============================================================================
