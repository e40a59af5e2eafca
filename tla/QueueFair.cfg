SPECIFICATION FairSpec
CONSTANTS
  t1 = t1
  t2 = t2
  w1 = w1
  w2 = w2
  e1 = e1
  e2 = e2
  NoTenant = NoTenant
  Tenants <- TwoTenants
  Workers <- OneWorker
  Enqueuers <- TwoEnqueuers
  MaxDeliveries = 2
  MaxEntries = 2
  MaxCrashes = 0
PROPERTY EveryEntrySettles
