SPECIFICATION LiveSpec
CONSTANTS
  w1 = w1
  a1 = a1
  e1 = e1
  searchservice = searchservice
  addon = addon
  Names = {searchservice, addon}
  Workers = {w1}
  Requests = {a1, e1}
  Extensions = {e1}
  NameOf <- OwnNames
  Consecutive = 2
  MinRequests = 3
  MaxCalls = 4
INVARIANTS
  TypeOK
  ProbeAlone
PROPERTIES
  OpensOnPattern
  Recovers
